---- MODULE Spec2Model ----
(***************************************************************************)
(* Decision engine of the chat sales assistant: the conversation-stage     *)
(* state machine and the candidate-action rule cascade of _design_node,    *)
(* the concurrent generate/evaluate pipeline of generate_and_evaluate_node *)
(* and the response selector self_verification_node, as driven by          *)
(* send_or_response_node once per customer turn; one call of the unit      *)
(* _generate_and_evaluate_action with its rule-based _fallback_evaluation; *)
(* one call of the proactive event scheduler (event_triggered_node,        *)
(* event_untriggered_node) with the hard override of the prompt builder;   *)
(* the three evaluator calls _design_node gathers before it decides, with  *)
(* the way evaluate_state builds an EmotionalState from a reply; the token *)
(* usage send_or_response_node reports turn after turn; and the runs of    *)
(* the marketing assistant's plan-execute-replan graph over the round data *)
(* its module holds.                                                       *)
(*                                                                         *)
(* Floats of the source in [0,1] are integers in hundredths: 0.3 is 30.    *)
(* Python lists are sequences; None is the string "None".  Instants are    *)
(* whole seconds and one scheduler call reads one clock value.             *)
(***************************************************************************)
EXTENDS Integers, Sequences, FiniteSets, TLC

\* ------------------------------------------------------------------ bounds
\* customer turns of one session
MaxTurns == 2

\* the number of consecutive evaluations of the stage state machine explored
MaxEvaluations == 7

\* the number of turns whose token usage is followed
MaxReports == 3

\* ------------------------------------------------------------- vocabulary
None == "None"

Stages ==
    << "initial_contact", "ice_breaking", "subtle_expertise",
       "pain_point_mining", "solution_visualization", "natural_invitation" >>

StageSet == { Stages[i] : i \in 1..Len(Stages) }

StageIndex(s) == CHOOSE i \in 1..Len(Stages) : Stages[i] = s

Actions ==
    { "greeting", "rapport_building", "needs_analysis", "value_display",
      "stress_response", "pain_point_test", "value_pitch", "active_close",
      "reverse_probe" }

IntentTypes ==
    { "appointment_request", "time_confirmation", "price_inquiry",
      "concern_raised", "general_chat", "ready_to_book", "info_providing",
      "info_seeking" }

IntentLevels == { "low", "medium", "high", "fake_high" }

\* representatives of every interval the comparisons of _design_node cut
TrustLevels == { 10, 20, 30, 40, 50, 60, 70, 80 }
ComfortLevels == { 10, 20, 25, 30, 40, 60 }
FamiliarityLevels == { 30, 40, 50 }
\* turn_count is read with a default of 0 and compared with 1 and modulo 4
TurnCounts == { 0, 1, 4 }

\* CustomerIntent as produced by analyze_customer_intent; None when the
\* classifier failed or returned no intent_type.  The confidence is only
\* compared (with 0.8) for the three appointment intents.
Intents ==
    { [intent_type |-> None, confidence |-> 0] } \cup
    { [intent_type |-> t, confidence |-> 90] : t \in IntentTypes } \cup
    { [intent_type |-> t, confidence |-> 80] :
        t \in {"appointment_request", "time_confirmation", "ready_to_book"} }

\* EmotionalState: of its seven levels the decision engine reads three
Emotions ==
    [trust_level : TrustLevels, comfort_level : ComfortLevels,
     familiarity_level : FamiliarityLevels]

\* what the three evaluator calls of a turn deliver after the join
DesignInputs ==
    [e : Emotions, customer_intent : IntentLevels, intent : Intents,
     invitation_status : {0, 1}]

\* the evaluator outputs explored turn by turn inside a session
SessionInputs ==
    { i \in DesignInputs :
        /\ i.e.trust_level \in {10, 80}
        /\ i.e.comfort_level = 60
        /\ i.e.familiarity_level = 50
        /\ i.customer_intent \in {"low", "high"}
        /\ i.intent.intent_type = None
        /\ i.invitation_status = 0 }

\* the stored turn_count values explored inside a multi-turn session
SessionTurnCounts == { 0, 1 }

\* scores an evaluated response may carry, on both sides of 0.2 and 0.3
ScoreValues == { 10, 20, 25, 30, 40, 90 }

\* the scores explored inside a multi-turn session
SessionScores == { 40 }

\* the actions a single pipeline call is explored with
PipelineActions == { "rapport_building", "stress_response", "needs_analysis" }

\* ---------------------------------------------------------- list helpers
Contains(seq, x) == \E i \in 1..Len(seq) : seq[i] = x

ToSet(seq) == { seq[i] : i \in 1..Len(seq) }

Take(seq, n) == SubSeq(seq, 1, IF Len(seq) < n THEN Len(seq) ELSE n)

\* all orderings of a finite set, as duplicate-free sequences
Orderings(S) ==
    { f \in [1..Cardinality(S) -> S] :
        \A i, j \in 1..Cardinality(S) : i # j => f[i] # f[j] }

\* ------------------------------------------------------ stage state machine
\* the stage read from debug_info, defaulting to initial_contact
ReadStage(stored) == IF stored = None THEN "initial_contact" ELSE stored

\* variant: a chain of independent ifs instead of if/elif
ForwardStageCascade(current_stage, turn_count, e, customer_intent) ==
    LET s1 == IF current_stage = "initial_contact"
                 /\ turn_count >= 1 /\ e.comfort_level > 20
              THEN "ice_breaking" ELSE current_stage
        s2 == IF s1 = "ice_breaking" /\ e.familiarity_level > 30
              THEN "subtle_expertise" ELSE s1
        s3 == IF s2 = "subtle_expertise" /\ e.trust_level > 40
              THEN "pain_point_mining" ELSE s2
        s4 == IF s3 = "pain_point_mining" /\ e.trust_level > 60
                 /\ customer_intent \in {"medium", "high"}
              THEN "solution_visualization" ELSE s3
    IN IF s4 = "solution_visualization" /\ e.trust_level > 70
          /\ customer_intent = "high"
       THEN "natural_invitation" ELSE s4

ForwardStage(current_stage, turn_count, e, customer_intent) ==
    CASE current_stage = "initial_contact" ->
            IF turn_count >= 1 /\ e.comfort_level > 20
            THEN "ice_breaking" ELSE current_stage
      [] current_stage = "ice_breaking" ->
            IF e.familiarity_level > 30
            THEN "subtle_expertise" ELSE current_stage
      [] current_stage = "subtle_expertise" ->
            IF e.trust_level > 40
            THEN "pain_point_mining" ELSE current_stage
      [] current_stage = "pain_point_mining" ->
            IF e.trust_level > 60 /\ customer_intent \in {"medium", "high"}
            THEN "solution_visualization" ELSE current_stage
      [] current_stage = "solution_visualization" ->
            IF e.trust_level > 70 /\ customer_intent = "high"
            THEN "natural_invitation" ELSE current_stage
      [] OTHER -> current_stage

\* variant: the regression rules run first and a forward move overrides them
NewStageForwardWins(current_stage, turn_count, e, customer_intent) ==
    LET forward == ForwardStage(current_stage, turn_count, e, customer_intent)
    IN IF forward # current_stage THEN forward
       ELSE IF e.comfort_level < 30
               /\ current_stage \notin {"initial_contact", "ice_breaking"}
       THEN "ice_breaking"
       ELSE IF e.trust_level < 20 /\ current_stage # "initial_contact"
       THEN "initial_contact"
       ELSE current_stage

\* forward evaluation first, then the regression rules override its result
NewStage(current_stage, turn_count, e, customer_intent) ==
    LET forward == ForwardStage(current_stage, turn_count, e, customer_intent)
    IN IF e.comfort_level < 30
          /\ current_stage \notin {"initial_contact", "ice_breaking"}
       THEN "ice_breaking"
       ELSE IF e.trust_level < 20 /\ current_stage # "initial_contact"
       THEN "initial_contact"
       ELSE forward

\* ------------------------------------------------- candidate-action cascade
StageActions(new_stage, turn_count, e, customer_intent, intent) ==
    CASE new_stage = "initial_contact" ->
            << "greeting", "needs_analysis", "value_display" >>
      [] new_stage = "ice_breaking" ->
            IF turn_count % 4 = 0
            THEN << "rapport_building" >>
            ELSE << "rapport_building", "needs_analysis", "value_display" >>
      [] new_stage = "subtle_expertise" ->
            << "value_display", "needs_analysis" >>
            \o (IF e.familiarity_level > 40
                THEN << "needs_analysis" >> ELSE << >>)
      [] new_stage = "pain_point_mining" ->
            IF intent.intent_type = "info_seeking"
            THEN << "value_display", "needs_analysis" >>
            ELSE << "needs_analysis", "pain_point_test" >>
                 \o (IF e.trust_level > 60
                     THEN << "value_display" >> ELSE << >>)
      [] new_stage = "solution_visualization" ->
            << "value_pitch", "value_display" >>
            \o (IF customer_intent = "high"
                THEN << "active_close" >> ELSE << >>)
      [] new_stage = "natural_invitation" ->
            << "active_close" >>
            \o (IF customer_intent # "high"
                THEN << "value_pitch" >> ELSE << >>)
      [] OTHER -> << >>

PrimaryActions(new_stage, turn_count, e, customer_intent, intent, invitation_status) ==
    IF invitation_status = 1
    THEN << "active_close", "value_display" >>
    ELSE IF intent.intent_type \in
              {"appointment_request", "time_confirmation", "ready_to_book"}
    THEN IF intent.confidence > 80
         THEN << "active_close", "value_display" >>
         ELSE << "needs_analysis", "value_display" >>
    ELSE IF intent.intent_type = "info_seeking"
    THEN << "value_display" >>
         \o (IF e.familiarity_level > 40
             THEN << "needs_analysis" >> ELSE << >>)
    ELSE IF intent.intent_type = "price_inquiry"
    THEN << "value_display", "value_pitch" >>
         \o (IF e.trust_level > 50 THEN << "active_close" >> ELSE << >>)
    ELSE IF intent.intent_type = "concern_raised"
    THEN << "stress_response", "rapport_building" >>
         \o (IF e.comfort_level < 40
             THEN << "rapport_building" >> ELSE << >>)
    ELSE StageActions(new_stage, turn_count, e, customer_intent, intent)

\* variant: the low-trust override compares with 0.1 instead of 0.3
EmotionAdjustedLowThreshold(acts, new_stage, e) ==
    IF e.trust_level < 10
    THEN << "rapport_building", "stress_response", "needs_analysis" >>
    ELSE IF e.comfort_level < 20
            /\ new_stage \in {"solution_visualization", "natural_invitation"}
    THEN << "stress_response" >> \o acts
    ELSE acts

\* 1. adjustment by emotional state
EmotionAdjusted(acts, new_stage, e) ==
    IF e.trust_level < 30
    THEN << "rapport_building", "stress_response", "needs_analysis" >>
    ELSE IF e.comfort_level < 20
            /\ new_stage \in {"solution_visualization", "natural_invitation"}
    THEN << "stress_response" >> \o acts
    ELSE acts

\* 2. special handling of the intent level
IntentAdjusted(acts, new_stage, customer_intent) ==
    IF customer_intent = "fake_high" /\ ~Contains(acts, "reverse_probe")
    THEN Append(acts, "reverse_probe")
    ELSE IF customer_intent = "low"
            /\ new_stage \in {"solution_visualization", "natural_invitation"}
    THEN << "rapport_building", "needs_analysis", "stress_response" >>
    ELSE acts

\* variant: the search space is expanded but never cut to three
SearchSpaceNoLimit(acts, e) ==
    LET sized ==
          IF Len(acts) = 1
          THEN LET primary_action == acts[1] IN
               CASE primary_action = "active_close" ->
                      acts
                      \o (IF e.comfort_level < 60
                          THEN << "stress_response" >> ELSE << >>)
                      \o (IF e.trust_level > 70
                          THEN << "value_display" >> ELSE << >>)
                 [] primary_action \in {"value_display", "value_pitch"} ->
                      acts \o << "needs_analysis" >>
                      \o (IF e.trust_level > 60
                          THEN << "active_close" >> ELSE << >>)
                 [] primary_action = "stress_response" ->
                      acts \o << "rapport_building" >>
                 [] OTHER -> acts
          ELSE acts
    IN IF sized = << >> THEN << "rapport_building" >> ELSE sized

\* 3. search-space management
SearchSpace(acts, e) ==
    LET sized ==
          IF Len(acts) = 1
          THEN LET primary_action == acts[1] IN
               CASE primary_action = "active_close" ->
                      acts
                      \o (IF e.comfort_level < 60
                          THEN << "stress_response" >> ELSE << >>)
                      \o (IF e.trust_level > 70
                          THEN << "value_display" >> ELSE << >>)
                 [] primary_action \in {"value_display", "value_pitch"} ->
                      acts \o << "needs_analysis" >>
                      \o (IF e.trust_level > 60
                          THEN << "active_close" >> ELSE << >>)
                 [] primary_action = "stress_response" ->
                      acts \o << "rapport_building" >>
                 [] OTHER -> acts
          ELSE IF Len(acts) > 3 THEN Take(acts, 3)
          ELSE acts
    IN IF sized = << >> THEN << "rapport_building" >> ELSE sized

\* the candidate_actions list of _design_node before list(set(...))
CandidateList(new_stage, turn_count, e, customer_intent, intent, invitation_status) ==
    SearchSpace(
        IntentAdjusted(
            EmotionAdjusted(
                PrimaryActions(new_stage, turn_count, e, customer_intent,
                               intent, invitation_status),
                new_stage, e),
            new_stage, customer_intent),
        e)

\* ------------------------------------------------------ response selector
\* variant: the sort without reverse=True, ascending
InsertAsc(sorted, r) ==
    LET k == Cardinality({ i \in 1..Len(sorted) : sorted[i].score <= r.score })
    IN SubSeq(sorted, 1, k) \o << r >> \o SubSeq(sorted, k + 1, Len(sorted))

\* one step of Python's stable sort by descending score: r goes behind
\* every element whose score is not smaller
InsertDesc(sorted, r) ==
    LET k == Cardinality({ i \in 1..Len(sorted) : sorted[i].score >= r.score })
    IN SubSeq(sorted, 1, k) \o << r >> \o SubSeq(sorted, k + 1, Len(sorted))

RECURSIVE SortedDesc(_)
\* sorted(rs, key=lambda x: x['score'], reverse=True)
SortedDesc(rs) ==
    IF rs = << >> THEN << >>
    ELSE InsertDesc(SortedDesc(SubSeq(rs, 1, Len(rs) - 1)), rs[Len(rs)])

Above(rs, threshold) == SelectSeq(rs, LAMBDA r : r.score > threshold)

\* high_quality_responses of self_verification_node
HighQuality(rs) ==
    IF Above(rs, 30) # << >> THEN Above(rs, 30)
    ELSE IF Above(rs, 20) # << >> THEN Above(rs, 20)
    ELSE SortedDesc(rs)

UltimateFallback == [kind |-> "ultimate_fallback", turn |-> 0, action |-> None]
Apology == [kind |-> "apology", turn |-> 0, action |-> None]

\* variant: the head of the tier is taken without sorting it
BestResponseUnsorted(hq) == hq[1]

\* the response self_verification_node selects from a non-empty tier
BestResponse(hq) ==
    IF Len(hq) = 1 THEN hq[1] ELSE SortedDesc(hq)[1]

\* last_message returned by self_verification_node
SelectedText(rs) ==
    IF HighQuality(rs) = << >> THEN UltimateFallback
    ELSE BestResponse(HighQuality(rs)).response

\* ------------------------------------------- rule-based fallback evaluation
\* A response text as _fallback_evaluation reads it: its length, its length
\* after strip(), whether it contains one of the keywords
\* 项目/方法/价格/效果/可以, and whether it contains one of the question words
\* 什么/怎么/哪种/为什么.  Every keyword has at least two characters.
TextLens == { 0, 2, 3, 4, 501 }

Texts ==
    { t \in [len : TextLens, stripped : TextLens,
             business : BOOLEAN, question : BOOLEAN] :
        /\ t.stripped <= t.len
        /\ t.business => t.stripped >= 2
        /\ t.question => t.stripped >= 2
        /\ (t.business /\ t.question) => t.stripped >= 4 }

\* the empty string
EmptyResponse ==
    [len |-> 0, stripped |-> 0, business |-> FALSE, question |-> FALSE]

\* fallback_responses.get(action, "嗯嗯，好的"): the canned reply of an action
FallbackResponse(action) ==
    LET n == CASE action = "greeting" -> 11
               [] action = "rapport_building" -> 8
               [] action = "needs_analysis" -> 15
               [] action = "value_display" -> 20
               [] action = "stress_response" -> 11
               [] action = "pain_point_test" -> 14
               [] action = "value_pitch" -> 17
               [] action = "active_close" -> 11
               [] action = "reverse_probe" -> 16
               [] OTHER -> 5
    IN [len |-> n, stripped |-> n,
        business |-> action \in {"greeting", "reverse_probe"},
        question |-> action = "greeting"]

\* stage_scores of _fallback_evaluation; 0 where the table has no entry
StageScore(current_stage, action) ==
    CASE current_stage = "initial_contact" /\ action = "greeting" -> 80
      [] current_stage = "initial_contact" /\ action = "rapport_building" -> 70
      [] current_stage = "ice_breaking" /\ action = "rapport_building" -> 80
      [] current_stage = "ice_breaking" /\ action = "needs_analysis" -> 60
      [] current_stage = "subtle_expertise" /\ action = "value_display" -> 80
      [] current_stage = "subtle_expertise" /\ action = "needs_analysis" -> 70
      [] current_stage = "pain_point_mining" /\ action = "needs_analysis" -> 80
      [] current_stage = "pain_point_mining" /\ action = "pain_point_test" -> 70
      [] current_stage = "solution_visualization" /\ action = "value_pitch" -> 80
      [] current_stage = "solution_visualization" /\ action = "value_display" -> 70
      [] current_stage = "natural_invitation" /\ action = "active_close" -> 80
      [] current_stage = "natural_invitation" /\ action = "value_pitch" -> 60
      [] OTHER -> 0

\* variant: only texts of fewer than two characters count as too short
TooShortBelowTwo(response) == response.stripped < 2

\* len(response.strip()) < 3
TooShort(response) == response.stripped < 3

\* variant: the final score is returned as computed
ClampScoreNone(score) == score

\* max(0.1, min(1.0, score))
ClampScore(score) ==
    IF score > 100 THEN 100 ELSE IF score < 10 THEN 10 ELSE score

\* a unit's emotional_state: None, or its trust and comfort levels
NoEmotion == [trust_level |-> -1, comfort_level |-> -1]

\* _fallback_evaluation(action, response, current_stage, emotional_state,
\* customer_intent_level)
FallbackEvaluation(action, response, current_stage, emotional_state, customer_intent_level) ==
    LET base == IF StageScore(current_stage, action) # 0
                THEN StageScore(current_stage, action) ELSE 50
        trust_level == IF emotional_state # NoEmotion
                       THEN emotional_state.trust_level ELSE 50
        comfort_level == IF emotional_state # NoEmotion
                         THEN emotional_state.comfort_level ELSE 50
        trust_adj ==
            IF trust_level < 30
            THEN IF action \in {"rapport_building", "greeting"} THEN 10
                 ELSE IF action \in {"active_close", "value_pitch"} THEN -20
                 ELSE 0
            ELSE 0
        comfort_adj ==
            IF comfort_level < 30
            THEN IF action \in {"stress_response", "rapport_building"} THEN 10
                 ELSE IF action = "active_close" THEN -10
                 ELSE 0
            ELSE 0
        intent_adj ==
            IF customer_intent_level = "high" /\ action = "active_close"
            THEN 10
            ELSE IF customer_intent_level = "low" /\ action = "active_close"
            THEN -20
            ELSE 0
        text_adj ==
            IF action = "value_display"
            THEN IF response.business THEN 15 ELSE 0
            ELSE IF action = "needs_analysis"
            THEN IF response.question THEN -10 ELSE 0
            ELSE 0
    IN IF TooShort(response) THEN 20
       ELSE IF response.len > 500 THEN 40
       ELSE ClampScore(base + trust_adj + comfort_adj + intent_adj + text_adj)

\* ResponseValidator.validate_score on a number: values above 1 are read as
\* marks out of 10 or out of 100, values above 100 become 0.5
ValidateScore(s) ==
    LET scaled == IF s > 100
                  THEN IF s <= 1000 THEN s \div 10
                       ELSE IF s <= 10000 THEN s \div 100
                       ELSE 50
                  ELSE s
    IN IF scaled > 100 THEN 100 ELSE IF scaled < 0 THEN 0 ELSE scaled

\* What the evaluation model returned: text from which no JSON object can
\* be recovered, JSON that is not an object, or an object whose "score" is
\* missing, not a number, or a number.  robust_json_parse validates what
\* json.loads reads at once (direct) and not what it reads after cleaning.
Feedbacks ==
    { [kind |-> "unparsable", direct |-> TRUE, score |-> 0] } \cup
    { [kind |-> k, direct |-> d, score |-> 0] :
        k \in {"not_object", "no_score", "score_not_number"},
        d \in BOOLEAN } \cup
    { [kind |-> "scored", direct |-> d, score |-> s] :
        d \in BOOLEAN, s \in {-20, 35, 700} }

\* the feedback makes .get() or float() raise inside the unit's try block
FeedbackRaises(feedback) ==
    \/ feedback.kind = "not_object"
    \/ feedback.kind = "score_not_number" /\ ~feedback.direct

\* variant: a feedback without a usable score is given the lowest score
FeedbackScoreLowest(feedback) ==
    IF feedback.kind = "scored" THEN ValidateScore(feedback.score) ELSE 0

\* the score _generate_and_evaluate_action takes from the parsed feedback:
\* fallback_dict, the default of .get() and validate_score give 0.5 when
\* there is no usable score; the result is cut to [0, 1]
FeedbackScore(feedback) ==
    IF feedback.kind = "scored"
    THEN IF feedback.direct THEN ValidateScore(feedback.score)
         ELSE IF feedback.score > 100 THEN 100
         ELSE IF feedback.score < 0 THEN 0
         ELSE feedback.score
    ELSE 50

\* ---------------------------------------------------- proactive scheduler
\* Instants are whole seconds of Beijing time counted from a Monday 00:00;
\* a timestamp string is the instant it denotes, None, or a key the state
\* does not hold.
Minute == 60
Hour == 3600
Day == 86400

Time(t) == [kind |-> "time", t |-> t]
NoTime == [kind |-> "none", t |-> 0]
AbsentTime == [kind |-> "absent", t |-> 0]
EmptyTime == [kind |-> "empty", t |-> 0]
UnparsableTime == [kind |-> "unparsable", t |-> 0]

\* EventType of states.py
EventTypes ==
    { "opening_greeting", "customer_followup", "appointment_reminder",
      "pending_activation", "connection_attempt" }

\* datetime.weekday(): Monday is 0, Saturday is 5
Weekday(t) == (t \div Day) % 7

\* datetime.hour
HourOf(t) == (t % Day) \div Hour

\* now.replace(hour=h, minute=m, second=0)
ReplaceTime(t, h, m) == (t - (t % Day)) + h * Hour + m * Minute

\* now.replace(second=0, microsecond=0)
FloorMinute(t) == t - (t % Minute)

\* variant: the elapsed minutes are rounded up
MinutesSinceLastCeil(now_t, last_t) ==
    IF now_t >= last_t THEN ((now_t - last_t) + (Minute - 1)) \div Minute
    ELSE -((last_t - now_t) \div Minute)

\* int(time_diff.total_seconds() / 60): truncation towards zero
MinutesSinceLast(now_t, last_t) ==
    IF now_t >= last_t THEN (now_t - last_t) \div Minute
    ELSE -((last_t - now_t) \div Minute)

\* variant: the draw can fall one below the lower end
RandIntBelow(a, b) == (a - 1)..b

\* random.randint(a, b): both ends included
RandInt(a, b) == a..b

\* variant: a Saturday slot that has passed is kept as it was drawn
SaturdayTimesUnguarded(now_t) ==
    LET days_until_saturday == (5 - Weekday(now_t)) % 7
        slots(base) == { ReplaceTime(base, h, m) :
                           h \in RandInt(7, 9), m \in RandInt(0, 59) }
    IN IF days_until_saturday = 0
       THEN IF HourOf(now_t) < 9
            THEN slots(now_t)
            ELSE slots(now_t + 7 * Day)
       ELSE slots(now_t + days_until_saturday * Day)

\* the Saturday branch of the hard override
SaturdayTimes(now_t) ==
    LET days_until_saturday == (5 - Weekday(now_t)) % 7
        slots(base) == { ReplaceTime(base, h, m) :
                           h \in RandInt(7, 9), m \in RandInt(0, 59) }
    IN IF days_until_saturday = 0
       THEN IF HourOf(now_t) < 9
            THEN { IF next_event_time <= now_t
                   THEN now_t + r * Minute ELSE next_event_time :
                     next_event_time \in slots(now_t), r \in RandInt(5, 10) }
            ELSE slots(now_t + 7 * Day)
       ELSE slots(now_t + days_until_saturday * Day)

\* the escalating buckets ("递进策略") of the hard override
ProgressiveTimes(now_t, minutes_since_last) ==
    IF minutes_since_last <= 2
    THEN { now_t + r * Minute : r \in RandInt(2, 5) }
    ELSE IF minutes_since_last <= 15
    THEN { now_t + r * Minute : r \in RandInt(15, 30) }
    ELSE IF minutes_since_last <= 60
    THEN { now_t + r * Hour : r \in RandInt(1, 2) }
    ELSE IF minutes_since_last <= 180
    THEN { now_t + r * Hour : r \in RandInt(3, 4) }
    ELSE IF minutes_since_last <= 1440
    THEN { ReplaceTime(now_t, 23, m)
             + (IF HourOf(now_t) >= 23 THEN Day ELSE 0) : m \in RandInt(0, 30) }
    ELSE SaturdayTimes(now_t)

\* event_time of the connection_attempt event the hard override returns
HardOverrideTimes(now_t, last_active_send_time) ==
    IF last_active_send_time.kind = "time"
    THEN ProgressiveTimes(now_t,
             MinutesSinceLast(now_t, last_active_send_time.t))
    ELSE { FloorMinute(now_t + 2 * Minute) }

\* ------------------------------------------- evaluate_state and the gather
\* EmotionalState(): every level at its default 0.0
ZeroEmotion ==
    [trust_level |-> 0, comfort_level |-> 0, familiarity_level |-> 0]

\* a JSON value of the evaluator's reply under a level key: a number, a
\* value that is no number, or no value at all
Number(v) == [kind |-> "number", v |-> v]
NotNumber == [kind |-> "string", v |-> 0]
Missing == [kind |-> "missing", v |-> 0]

\* max(0.0, min(1.0, value))
Clamp(v) == IF v < 0 THEN 0 ELSE IF v > 100 THEN 100 ELSE v

\* one level as validate_emotional_state fixes it
ValidatedLevel(value) ==
    IF value.kind = "number" THEN Clamp(value.v) ELSE 0

\* ResponseValidator.validate_emotional_state
ValidateEmotionalState(data) ==
    [trust_level |-> Number(ValidatedLevel(data.trust_level)),
     comfort_level |-> Number(ValidatedLevel(data.comfort_level)),
     familiarity_level |-> Number(ValidatedLevel(data.familiarity_level))]

\* one level as extract_info_from_text reads it from free text: the digits
\* without a sign, divided by 100 when above 1, then clamped
ExtractedLevel(value) ==
    IF value.kind = "number"
    THEN LET digits == IF value.v < 0 THEN 0 - value.v ELSE value.v
         IN Clamp(IF digits > 100 THEN digits \div 100 ELSE digits)
    ELSE 0

\* extract_info_from_text for the state evaluation
ExtractInfoFromText(data) ==
    [trust_level |-> Number(ExtractedLevel(data.trust_level)),
     comfort_level |-> Number(ExtractedLevel(data.comfort_level)),
     familiarity_level |-> Number(ExtractedLevel(data.familiarity_level))]

\* the emotional_state of create_fallback_dict
FallbackEmotionalState ==
    [trust_level |-> Number(0), comfort_level |-> Number(0),
     familiarity_level |-> Number(0)]

\* How robust_json_parse gets a dict out of the reply: json.loads of the
\* text as it is, json.loads after cleaning, extracting or repairing the
\* text, the regular expressions over free text, or not at all.
ParsePaths == { "direct", "recovered", "text", "unparsable" }

\* the emotional_state of the dict robust_json_parse returns: only the
\* directly parsed dict and the fallback dict pass validate_and_fix_response
RobustJsonParse(reply) ==
    CASE reply.path = "direct" -> ValidateEmotionalState(reply.emotional_state)
      [] reply.path = "recovered" -> reply.emotional_state
      [] reply.path = "text" -> ExtractInfoFromText(reply.emotional_state)
      [] OTHER -> FallbackEmotionalState

\* one level as safe_create_emotional_state copies it from a dict
SafeLevel(value) == IF value.kind = "number" THEN value.v ELSE 0

\* safe_create_emotional_state of a dict
SafeCreateEmotionalState(data) ==
    [trust_level |-> SafeLevel(data.trust_level),
     comfort_level |-> SafeLevel(data.comfort_level),
     familiarity_level |-> SafeLevel(data.familiarity_level)]

\* the levels the reply of the evaluation model is explored with
RawEmotions ==
    [trust_level : { Number(0 - 20), Number(50), Number(200), NotNumber },
     comfort_level : { Number(60), Number(200) },
     familiarity_level : { Number(50), Missing }]

EvaluatorReplies ==
    [path : ParsePaths, emotional_state : RawEmotions,
     customer_intent_level : { "medium" }]

\* the intents and invitation statuses the other two calls are explored with
GatherIntents ==
    { i \in Intents : i.intent_type \in {"general_chat", "price_inquiry"}
                      /\ i.confidence = 90 }
NoIntent == [intent_type |-> None, confidence |-> 0]
InvitationStatuses == { 0, 1 }

\* what one of the three calls has delivered to asyncio.gather
NoEvaluation(status) ==
    [status |-> status, emotional_state |-> ZeroEmotion,
     customer_intent_level |-> "low"]
NoIntentResult(status) == [status |-> status, customer_intent |-> NoIntent]
NoJudgement(status) == [status |-> status, invitation_status |-> 0]

\* the emotional state and the intent level a thread holds before the turn
NoExistingState ==
    [has_emotional_state |-> FALSE, emotional_state |-> ZeroEmotion,
     customer_intent_level |-> "low"]
ExistingStates ==
    { NoExistingState,
      [has_emotional_state |-> TRUE,
       emotional_state |-> [trust_level |-> 80, comfort_level |-> 60,
                            familiarity_level |-> 50],
       customer_intent_level |-> "high"] }

\* an exception among the gathered results is replaced by an empty dict
OrEmpty(result) ==
    IF result.status = "exception"
    THEN [result EXCEPT !.status = "empty"] ELSE result

\* variant: the node goes on as soon as one of the calls has completed
GatherFirstCompleted(statuses) ==
    \E s \in statuses : s \in {"returned", "empty", "exception"}

\* asyncio.gather returns when each of the three calls has completed
GatherDone(statuses) ==
    \A s \in statuses : s \in {"returned", "empty", "exception"}

\* the inputs of the decision as _design_node reads them from the results
JoinedInput(evaluation, intent, judgement, existing) ==
    [e |-> IF OrEmpty(evaluation).status = "returned"
           THEN evaluation.emotional_state
           ELSE IF existing.has_emotional_state
           THEN existing.emotional_state
           ELSE ZeroEmotion,
     customer_intent |->
        IF OrEmpty(evaluation).status = "returned"
        THEN evaluation.customer_intent_level
        ELSE existing.customer_intent_level,
     intent |-> IF OrEmpty(intent).status = "returned"
                THEN intent.customer_intent ELSE NoIntent,
     invitation_status |->
        IF OrEmpty(judgement).status = "returned"
        THEN judgement.invitation_status ELSE 0]

\* ------------------------------------------------- keys a thread keeps
\* The graph engine writes a key a node returns into the channel of that
\* name; the channels are the fields of the schemas the graph was built
\* with, and a key that is no field of them is dropped with the node's
\* return, so that the next node and the next turn do not find it.

\* the fields of AgentState, AgentInput and AgentOutput
AgentStateKeys ==
    { "messages", "processed_messages", "long_term_messages", "thread_id",
      "assistant_id", "last_message", "last_message_audio_url",
      "final_response", "evaluated_responses", "used_tools", "tool_results",
      "emotional_state", "customer_intent", "appointment_info", "debug_info",
      "agent_temperature", "verbose", "turn_count", "customer_intent_level",
      "candidate_actions", "audio_reply", "event_instance",
      "appointment_time", "user_last_reply_time", "last_active_send_time",
      "event_info", "user_treatment_completion_info", "customer_info",
      "event_happens", "send_response_yes_or_no", "user_requires_message",
      "sales_requires_message", "invitation_status", "invitation_time",
      "invitation_project", "custom_audio_text", "selected_image",
      "image_request_detected", "custom_status", "token_usage" }

\* the fields of ChatMarketingState, ChatMarketingInput, ChatMarketingOutput
ChatMarketingStateKeys ==
    { "messages", "conversation_memory", "current_user_input", "round_id",
      "plan", "past_steps", "response", "current_step", "time_info",
      "search_results", "marketing_copies", "error_message" }

\* a key the state dict does not hold, and an integer it holds
NoValue == [kind |-> "absent", v |-> 0]
Value(n) == [kind |-> "int", v |-> n]

\* state.get(key, default) and int(state.get(key) or 0)
StateGet(x, default) == IF x.kind = "absent" THEN default ELSE x.v

\* what the thread holds under a key after a node returned value n for it
Kept(keys, key, n) == IF key \in keys THEN Value(n) ELSE NoValue

\* the token_usage channel before any turn wrote it, and a written one
NoUsage == [kind |-> "absent", current_used |-> 0, total_used |-> 0]
Usage(current_used, total_used) ==
    [kind |-> "dict", current_used |-> current_used,
     total_used |-> total_used]

\* send_or_response_node, the token accounting of a sent reply
TokenUsage(round_used, total_prev) ==
    Usage(StateGet(round_used, 0),
          StateGet(total_prev, 0) + StateGet(round_used, 0))

\* send_or_response_node, the token_usage of a turn that sends nothing
TokenUsageNoReply(total_prev) == Usage(0, StateGet(total_prev, 0))

\* ------------------------------------- marketing assistant: the round data
\* the marketing sessions that run in one process
Sessions == { 1, 2 }

\* the longest list of steps the planner and the replanner answer with
MaxSteps == 2

\* the number of plans the replanner is asked to install in one run
MaxReplans == 4

\* replan_step and _should_continue: max_retries = 3
max_retries == 3

\* the text of a customer message, told apart by the session that sent it
\* and the round of that session; "" is NoUserInput
NoUserInput == [session |-> 0, round |-> 0]
UserInput(s, r) == [session |-> s, round |-> r]

\* a list of n plan steps
Steps(n) == [i \in 1..n |-> "step"]

\* the dict init_round_data and clear_round_data bind current_round_data to;
\* execution_results names the list object the dict holds. The keys the
\* plan step adds later are absent: plan and planned_tools read as [], and
\* conversation_type as None. The keys no node reads or writes (plan_steps,
\* tool_outputs, marketing_copies, search_results, time_info) are left out.
RoundData(round_id, user_input, list) ==
    [round_id |-> round_id, user_input |-> user_input, plan |-> << >>,
     planned_tools |-> << >>, conversation_type |-> None,
     execution_results |-> list]

\* current_round_data as the module binds it when it is loaded
InitialRoundData == RoundData(0, NoUserInput, 1)

\* round_data.get('conversation_type', 'chat')
ConversationType(rd) ==
    IF rd.conversation_type = None THEN "chat" ELSE rd.conversation_type

\* the structured answers of the planner: plan_steps is steps, or the one
\* execution_plan when steps is empty; planned_tools are the tool names the
\* execution_plan mentions
PlanSteps(n) == IF n = 0 THEN Steps(1) ELSE Steps(n)
PlanResults ==
    [conversation_type : { "chat" }, planned_tools : { << >> },
     steps : { 1 }]
    \cup
    [conversation_type : { "chat" },
     planned_tools : { << "web_search_tool" >> }, steps : 0..MaxSteps]
    \cup
    [conversation_type : { "generation" },
     planned_tools : { << "marketing_copy_generator" >> },
     steps : 1..MaxSteps]

\* the answers of the replanner: a Response, or a Plan with its steps
ReplanResults ==
    { [kind |-> "Response", steps |-> 0] }
    \cup [kind : { "Plan" }, steps : 0..MaxSteps]

\* whether the executor's messages hold a marketing_copy_generator message
\* with copies: explored both ways when the plan read names the generator
ExecutionCopies(rd) ==
    IF Contains(rd.planned_tools, "marketing_copy_generator")
    THEN BOOLEAN ELSE { FALSE }

\* marketing_copy_success of replan_step and _should_continue
MarketingCopySuccess(execution_results) ==
    \E i \in 1..Len(execution_results) : execution_results[i].copy

\* the response field of a state: unset, or the reply to a user input
NoResponse == [kind |-> "none", to |-> NoUserInput, copies |-> FALSE]
Response(user_input, copies) ==
    [kind |-> "response", to |-> user_input, copies |-> copies]

\* the ChatMarketingState of a thread before its first run
NoGraphState ==
    [round_id |-> 0, plan |-> << >>, response |-> NoResponse,
     current_step |-> None, retry_count |-> NoValue]

\* _should_continue, on the state execute_step returned and the round data
\* and list it finds
ShouldContinue(state, rd, execution_results) ==
    IF state.response # NoResponse THEN "end"
    ELSE IF StateGet(state.retry_count, 0) >= max_retries THEN "end"
    ELSE IF /\ ConversationType(rd) = "generation"
            /\ Contains(rd.planned_tools, "marketing_copy_generator")
         THEN IF MarketingCopySuccess(execution_results) THEN "end"
              ELSE IF state.plan # << >> THEN "continue" ELSE "end"
    ELSE IF state.plan # << >> THEN "continue" ELSE "end"

\* ------------------------------------------------------------------ state
VARIABLES
    pc,                   \* position of the session's current turn
    turn,                 \* number of customer turns received so far
    turn_count,           \* AgentState.turn_count (read, never written)
    inp,                  \* the joined evaluator outputs of the current turn
    stored_stage,         \* AgentState.debug_info.current_stage
    stage_read,           \* current_stage as read by _design_node this turn
    new_stage,            \* new_stage computed by _design_node this turn
    prev_produced,        \* new_stage of the previous replied turn, or None
    candidate_actions,    \* AgentState.candidate_actions
    unit,                 \* per submitted unit: status, response and score
    results,              \* results list of the pipeline, in completion order
    failure_entries,      \* failure lines this pipeline call added to the trace
    evaluated_responses,  \* AgentState.evaluated_responses
    last_message,         \* AgentState.last_message
    round_token_used,     \* AgentState.round_token_used
    call_pc,              \* position of one _generate_and_evaluate_action
    call_args,            \* its action and the state fields it reads
    call_response,        \* its local variable response
    call_feedback,        \* how its evaluation step ended
    call_score,           \* the score it records
    sched_pc,             \* position of one scheduler call
    sched_state,          \* the state fields the scheduler call reads
    now,                  \* the instant of the scheduler call
    decision_response,    \* what the decision model answered, if asked
    sched_result,         \* the dict the scheduler call returns
    evaluation_result,    \* what evaluate_state delivered to the gather
    intent_result,        \* what analyze_customer_intent delivered
    judge_invitation_result, \* what judge_invitation_state delivered
    existing_state,       \* the emotional state and level the thread holds
    token_usage,          \* the token_usage channel of the thread
    token_total_used,     \* the key token_total_used as the thread keeps it
    token_reports,        \* the token_usage every finished turn put out
    current_round_data,   \* the module-level dict current_round_data
    execution_lists,      \* the list objects held under execution_results
    step_pc,              \* per marketing session: position of its run
    graph_state,          \* per marketing session: its ChatMarketingState
    round_data,           \* per marketing session: the dict its node read
    plans_installed       \* per marketing session: plans replan_step set

unitVars ==
    << call_pc, call_args, call_response, call_feedback, call_score >>

schedVars ==
    << sched_pc, sched_state, now, decision_response, sched_result >>

gatherVars ==
    << evaluation_result, intent_result, judge_invitation_result,
       existing_state >>

usageVars == << token_usage, token_total_used, token_reports >>

marketingVars ==
    << current_round_data, execution_lists, step_pc, graph_state, round_data,
       plans_installed >>

otherVars == << usageVars, marketingVars >>

NoText == [kind |-> "none", turn |-> 0, action |-> None]

\* text a unit generated for an action in a turn
Generated(t, a) == [kind |-> "generated", turn |-> t, action |-> a]

NoInput ==
    [e |-> [trust_level |-> 0, comfort_level |-> 0, familiarity_level |-> 0],
     customer_intent |-> "low",
     intent |-> [intent_type |-> None, confidence |-> 0],
     invitation_status |-> 0]

sessionVars ==
    << pc, turn, turn_count, inp, stored_stage, stage_read, new_stage,
       prev_produced, candidate_actions, unit, results, failure_entries,
       evaluated_responses, last_message, round_token_used >>

\* the empty string as a reply text
EmptyText == [kind |-> "empty", turn |-> 0, action |-> None]

NoArgs ==
    [action |-> None, current_stage |-> None, emotional_state |-> NoEmotion,
     customer_intent_level |-> None]
NoFeedback == [kind |-> "none", direct |-> FALSE, score |-> 0]
NotReached == [kind |-> "not_reached", direct |-> FALSE, score |-> 0]
EvaluatorRaised == [kind |-> "raised", direct |-> FALSE, score |-> 0]

MissingTime == [kind |-> "missing", t |-> 0]
NoEvent == [event_type |-> None, event_time |-> 0]
NoDecisionResponse ==
    [json |-> FALSE, event_type |-> None, event_time |-> NoTime]
NoResult ==
    [event_instance |-> NoEvent, user_last_reply_time |-> NoTime,
     last_active_send_time |-> NoTime, error |-> FALSE]
NoSchedState ==
    [event_happens |-> FALSE, human_msg_count |-> 0,
     user_last_reply_time |-> NoTime, last_active_send_time |-> NoTime]

\* no session is running
SessionIdle ==
    /\ pc = "idle"
    /\ turn = 0
    /\ turn_count = 0
    /\ inp = NoInput
    /\ stored_stage = None
    /\ stage_read = None
    /\ new_stage = None
    /\ prev_produced = None
    /\ candidate_actions = << >>
    /\ unit = << >>
    /\ results = << >>
    /\ failure_entries = << >>
    /\ evaluated_responses = << >>
    /\ last_message = NoText
    /\ round_token_used = 0

\* no unit is looked at on its own
UnitIdle ==
    /\ call_pc = "idle"
    /\ call_args = NoArgs
    /\ call_response = EmptyResponse
    /\ call_feedback = NoFeedback
    /\ call_score = 0

\* no gather of evaluator calls is looked at on its own
GatherIdle ==
    /\ evaluation_result = NoEvaluation("idle")
    /\ intent_result = NoIntentResult("idle")
    /\ judge_invitation_result = NoJudgement("idle")
    /\ existing_state = NoExistingState

\* no turn put out a token usage yet
UsageIdle ==
    /\ token_usage = NoUsage
    /\ token_total_used = NoValue
    /\ token_reports = << >>

\* no marketing session runs
MarketingIdle ==
    /\ current_round_data = InitialRoundData
    /\ execution_lists = << << >> >>
    /\ step_pc = [s \in Sessions |-> "idle"]
    /\ graph_state = [s \in Sessions |-> NoGraphState]
    /\ round_data = [s \in Sessions |-> InitialRoundData]
    /\ plans_installed = [s \in Sessions |-> 0]

\* no scheduler call is running
SchedulerIdle ==
    /\ sched_pc = "idle"
    /\ sched_state = NoSchedState
    /\ now = 0
    /\ decision_response = NoDecisionResponse
    /\ sched_result = NoResult

\* the emotional states a unit is explored with: None, and the levels on
\* both sides of the two comparisons with 0.3
UnitEmotions ==
    { NoEmotion } \cup
    [trust_level : {20, 30}, comfort_level : {20, 30}]

\* debug_info.current_stage as the unit reads it: "" when it is not set
UnitStages == StageSet \cup { "" }

\* every argument list of _fallback_evaluation the unit can build
FallbackArgs ==
    [action : Actions, current_stage : UnitStages,
     emotional_state : UnitEmotions,
     customer_intent_level : IntentLevels \cup { None }]

\* the argument lists one unit call is explored with
UnitArgs ==
    [action : Actions,
     current_stage : { "", "initial_contact", "natural_invitation" },
     emotional_state : UnitEmotions,
     customer_intent_level : { None, "low", "high" }]

\* the texts the generation step of one unit call is explored with
UnitTexts ==
    { t \in Texts : t.len \in {0, 2, 4} /\ t.stripped = t.len }

\* _generate_and_evaluate_action entered with any action and state
InitUnit ==
    /\ SessionIdle
    /\ SchedulerIdle
    /\ GatherIdle
    /\ UsageIdle
    /\ MarketingIdle
    /\ call_pc = "generate"
    /\ call_args \in UnitArgs
    /\ call_response = EmptyResponse
    /\ call_feedback = NoFeedback
    /\ call_score = 0

\* the evaluation step entered with any arguments and any response text
InitFallback ==
    /\ SessionIdle
    /\ SchedulerIdle
    /\ GatherIdle
    /\ UsageIdle
    /\ MarketingIdle
    /\ call_pc = "evaluate"
    /\ call_args \in FallbackArgs
    /\ call_response \in Texts
    /\ call_feedback = NoFeedback
    /\ call_score = 0

\* the instants scheduler calls are explored at: Wednesday 12:00:30,
\* Friday 23:10:05, Saturday 06:30:10, 07:30:00 and 09:15:00, Sunday 10:00:00
Nows ==
    { 7 * Day + 2 * Day + 12 * Hour + 30,
      7 * Day + 4 * Day + 23 * Hour + 10 * Minute + 5,
      7 * Day + 5 * Day + 6 * Hour + 30 * Minute + 10,
      7 * Day + 5 * Day + 7 * Hour + 30 * Minute,
      7 * Day + 5 * Day + 9 * Hour + 15 * Minute,
      7 * Day + 6 * Day + 10 * Hour }

\* seconds between last_active_send_time and now, on both sides of every
\* bucket limit
ElapsedSeconds ==
    { -60, 0, 60, 120, 150, 180, 900, 930, 960, 3600, 3660,
      10800, 10860, 86400, 86460, 200000 }

\* seconds between now and the event_time the decision model proposes
ModelDelays == { -60, 0, 3600 }

\* the answers of the decision model: text without a JSON object, or an
\* object with any, an unknown or no event_type and with a readable, an
\* unreadable or no event_time
DecisionResponses(now_t) ==
    { [json |-> FALSE, event_type |-> "missing", event_time |-> MissingTime] }
    \cup
    [json : { TRUE },
     event_type : EventTypes \cup { "unknown_type", "missing" },
     event_time : { MissingTime, UnparsableTime }
                     \cup { Time(now_t + d) : d \in ModelDelays }]

\* a scheduler call entered in either mode at any of the instants
InitScheduler ==
    /\ SessionIdle
    /\ UnitIdle
    /\ GatherIdle
    /\ UsageIdle
    /\ MarketingIdle
    /\ sched_pc = "ready"
    /\ now \in Nows
    /\ sched_state \in
          [event_happens : BOOLEAN,
           human_msg_count : { 0, 1 },
           user_last_reply_time :
              { NoTime, AbsentTime, Time(now - (Hour + 17)) },
           last_active_send_time :
              { NoTime, EmptyTime, UnparsableTime }
                 \cup { Time(now - e) : e \in ElapsedSeconds }]
    /\ decision_response = NoDecisionResponse
    /\ sched_result = NoResult

\* _design_node has started the three evaluator calls of a turn
InitGather ==
    /\ UnitIdle
    /\ SchedulerIdle
    /\ UsageIdle
    /\ MarketingIdle
    /\ pc = "gather"
    /\ turn = 1
    /\ turn_count = 1
    /\ inp = NoInput
    /\ stored_stage \in {None, "pain_point_mining"}
    /\ stage_read = None
    /\ new_stage = None
    /\ prev_produced = None
    /\ candidate_actions = << >>
    /\ unit = << >>
    /\ results = << >>
    /\ failure_entries = << >>
    /\ evaluated_responses = << >>
    /\ last_message = NoText
    /\ round_token_used = 0
    /\ evaluation_result = NoEvaluation("running")
    /\ intent_result = NoIntentResult("running")
    /\ judge_invitation_result = NoJudgement("running")
    /\ existing_state \in ExistingStates

\* the token totals one model call of a unit is explored with; a call that
\* failed or reported no usage counts 0
TokenCounts == { 0, 3, 5 }

\* generate_and_evaluate_node entered with any candidate list of at most
\* three actions, on a thread that holds the token total of an earlier turn
InitTokens ==
    /\ UnitIdle
    /\ SchedulerIdle
    /\ GatherIdle
    /\ UsageIdle
    /\ MarketingIdle
    /\ pc = "submit"
    /\ turn = 1
    /\ turn_count = 0
    /\ inp = NoInput
    /\ stored_stage = "initial_contact"
    /\ stage_read = "initial_contact"
    /\ new_stage = "initial_contact"
    /\ prev_produced = None
    /\ candidate_actions \in
          UNION { Orderings(S) : S \in SUBSET PipelineActions }
    /\ unit = << >>
    /\ results = << >>
    /\ failure_entries = << >>
    /\ evaluated_responses = << >>
    /\ last_message = NoText
    /\ round_token_used \in TokenCounts

\* the evaluator outputs a run of turns with constant inputs is explored with
StageInputs ==
    { i \in DesignInputs : i.intent = NoIntent /\ i.invitation_status = 0 }

\* the first of a run of turns on a thread that holds any stage
InitStage ==
    /\ UnitIdle
    /\ SchedulerIdle
    /\ GatherIdle
    /\ UsageIdle
    /\ MarketingIdle
    /\ pc = "design"
    /\ turn = 1
    /\ turn_count = 1
    /\ inp \in StageInputs
    /\ stored_stage \in StageSet
    /\ stage_read = None
    /\ new_stage = None
    /\ prev_produced = None
    /\ candidate_actions = << >>
    /\ unit = << >>
    /\ results = << >>
    /\ failure_entries = << >>
    /\ evaluated_responses = << >>
    /\ last_message = NoText
    /\ round_token_used = 0

vars ==
    << sessionVars, unitVars, schedVars, gatherVars, usageVars,
       marketingVars >>

\* a thread before its first turn
Init ==
    /\ UnitIdle
    /\ SchedulerIdle
    /\ GatherIdle
    /\ UsageIdle
    /\ MarketingIdle
    /\ round_token_used = 0
    /\ pc = "idle"
    /\ turn = 0
    /\ turn_count \in SessionTurnCounts
    /\ inp = NoInput
    /\ stored_stage = None
    /\ stage_read = None
    /\ new_stage = None
    /\ prev_produced = None
    /\ candidate_actions = << >>
    /\ unit = << >>
    /\ results = << >>
    /\ failure_entries = << >>
    /\ evaluated_responses = << >>
    /\ last_message = NoText

\* _design_node entered with any stored stage and any evaluator outputs
InitDesign ==
    /\ UnitIdle
    /\ SchedulerIdle
    /\ GatherIdle
    /\ UsageIdle
    /\ MarketingIdle
    /\ round_token_used = 0
    /\ pc = "design"
    /\ turn = 1
    /\ turn_count \in TurnCounts
    /\ inp \in DesignInputs
    /\ stored_stage \in StageSet
    /\ stage_read = None
    /\ new_stage = None
    /\ prev_produced = None
    /\ candidate_actions = << >>
    /\ unit = << >>
    /\ results = << >>
    /\ failure_entries = << >>
    /\ evaluated_responses = << >>
    /\ last_message = NoText

\* generate_and_evaluate_node entered with any candidate list of at most
\* three actions, on a thread that holds no or one earlier evaluated response
InitPipeline ==
    /\ UnitIdle
    /\ SchedulerIdle
    /\ GatherIdle
    /\ UsageIdle
    /\ MarketingIdle
    /\ round_token_used = 0
    /\ pc = "submit"
    /\ turn = 1
    /\ turn_count = 0
    /\ inp = NoInput
    /\ stored_stage = "initial_contact"
    /\ stage_read = "initial_contact"
    /\ new_stage = "initial_contact"
    /\ prev_produced = None
    /\ candidate_actions \in
          UNION { Orderings(S) : S \in SUBSET PipelineActions }
    /\ unit = << >>
    /\ results = << >>
    /\ failure_entries = << >>
    /\ evaluated_responses \in
          { << >>,
            << [action |-> "greeting", response |-> Generated(0, "greeting"),
                score |-> 40] >> }
    /\ last_message = NoText

\* ---------------------------------------------------------------- actions
\* A customer message arrives: multi_subgraph_parallel_node sets
\* user_requires_message and starts the sub-graphs of the turn.
ReceiveMessage ==
    /\ pc \in {"idle", "replied", "raised"}
    /\ turn < MaxTurns
    /\ pc' = "design"
    /\ turn' = turn + 1
    /\ inp' \in SessionInputs
    /\ stage_read' = None
    /\ new_stage' = None
    /\ unit' = << >>
    /\ results' = << >>
    /\ failure_entries' = << >>
    /\ UNCHANGED << otherVars, unitVars, schedVars, gatherVars, round_token_used >>
    /\ UNCHANGED << turn_count, stored_stage, prev_produced,
                    candidate_actions, evaluated_responses, last_message >>

\* _design_node (followed by analyze_sentiment_node, which copies the stage):
\* stage state machine, candidate cascade, list(set(...)) of the result
DesignNode ==
    /\ pc = "design"
    /\ LET current_stage == ReadStage(stored_stage)
           stage == NewStage(current_stage, turn_count, inp.e,
                             inp.customer_intent)
       IN /\ stage_read' = current_stage
          /\ new_stage' = stage
          /\ stored_stage' = stage
          /\ candidate_actions' \in
                Orderings(ToSet(CandidateList(stage, turn_count, inp.e,
                                              inp.customer_intent, inp.intent,
                                              inp.invitation_status)))
    /\ pc' = "audio"
    /\ UNCHANGED << otherVars, unitVars, schedVars, gatherVars, round_token_used >>
    /\ UNCHANGED << turn, turn_count, inp, prev_produced, unit, results,
                    failure_entries, evaluated_responses, last_message >>

\* A sibling sub-graph raised inside asyncio.gather: the node returns the
\* state as it was, without the outputs of _design_node.
SubgraphsAborted ==
    /\ pc = "design"
    /\ pc' = "audio"
    /\ UNCHANGED << otherVars, unitVars, schedVars, gatherVars, round_token_used >>
    /\ UNCHANGED << turn, turn_count, inp, stored_stage, stage_read,
                    new_stage, prev_produced, candidate_actions, unit,
                    results, failure_entries, evaluated_responses,
                    last_message >>

\* send_or_response_node: _should_audio_reply returned a decision
AudioDecided ==
    /\ pc = "audio"
    /\ pc' = "submit"
    /\ UNCHANGED << otherVars, unitVars, schedVars, gatherVars, round_token_used >>
    /\ UNCHANGED << turn, turn_count, inp, stored_stage, stage_read,
                    new_stage, prev_produced, candidate_actions, unit,
                    results, failure_entries, evaluated_responses,
                    last_message >>

\* send_or_response_node: the model call of _should_audio_reply failed; the
\* helper re-raises and the node does not catch it
AudioJudgeRaises ==
    /\ pc = "audio"
    /\ pc' = "raised"
    /\ UNCHANGED << otherVars, unitVars, schedVars, gatherVars, round_token_used >>
    /\ UNCHANGED << turn, turn_count, inp, stored_stage, stage_read,
                    new_stage, prev_produced, candidate_actions, unit,
                    results, failure_entries, evaluated_responses,
                    last_message >>

\* generate_and_evaluate_node: one unit per candidate action is submitted
SubmitUnits ==
    /\ pc = "submit"
    /\ unit' = [i \in 1..Len(candidate_actions) |->
                    [status |-> "running", score |-> 0,
                     response |-> NoText, generation_total |-> 0,
                     evaluation_total |-> 0]]
    /\ results' = << >>
    /\ pc' = "running"
    /\ UNCHANGED << otherVars, unitVars, schedVars, gatherVars, round_token_used >>
    /\ UNCHANGED << turn, turn_count, inp, stored_stage, stage_read,
                    new_stage, prev_produced, candidate_actions,
                    failure_entries, evaluated_responses, last_message >>

\* a unit returns its evaluated response and the tokens its generation and
\* its evaluation used; as_completed yields it next
UnitReturns(i, score, generation_total, evaluation_total) ==
    /\ pc = "running"
    /\ unit[i].status = "running"
    /\ unit' = [unit EXCEPT ![i] =
                    [status |-> "returned", score |-> score,
                     response |-> Generated(turn, candidate_actions[i]),
                     generation_total |-> generation_total,
                     evaluation_total |-> evaluation_total]]
    /\ results' =
          Append(results,
                 [ok |-> TRUE, unit |-> i, action |-> candidate_actions[i],
                  response |-> Generated(turn, candidate_actions[i]),
                  score |-> score,
                  total_tokens |-> generation_total + evaluation_total])
    /\ UNCHANGED << otherVars, unitVars, schedVars, gatherVars, round_token_used >>
    /\ UNCHANGED << pc, turn, turn_count, inp, stored_stage, stage_read,
                    new_stage, prev_produced, candidate_actions,
                    failure_entries, evaluated_responses, last_message >>

\* a unit raises; future.result() re-raises it and the loop keeps it
UnitRaises(i) ==
    /\ pc = "running"
    /\ unit[i].status = "running"
    /\ unit' = [unit EXCEPT ![i] =
                    [status |-> "raised", score |-> 0, response |-> NoText,
                     generation_total |-> 0, evaluation_total |-> 0]]
    /\ results' =
          Append(results,
                 [ok |-> FALSE, unit |-> i, action |-> candidate_actions[i],
                  response |-> NoText, score |-> 0, total_tokens |-> 0])
    /\ UNCHANGED << otherVars, unitVars, schedVars, gatherVars, round_token_used >>
    /\ UNCHANGED << pc, turn, turn_count, inp, stored_stage, stage_read,
                    new_stage, prev_produced, candidate_actions,
                    failure_entries, evaluated_responses, last_message >>

\* variant: the collecting loop stops at the first result that is an exception
EvaluatedUntilFailure(rs) ==
    LET bad == { j \in 1..Len(rs) : ~rs[j].ok }
        stop == IF bad = {} THEN Len(rs)
                ELSE (CHOOSE j \in bad : \A m \in bad : j <= m) - 1
    IN [j \in 1..stop |->
          [action |-> rs[j].action, response |-> rs[j].response,
           score |-> rs[j].score]]

\* the evaluated responses among the results, in results order
Evaluated(rs) ==
    LET oks == SelectSeq(rs, LAMBDA r : r.ok)
    IN [j \in 1..Len(oks) |->
          [action |-> oks[j].action, response |-> oks[j].response,
           score |-> oks[j].score]]

\* the failure lines: result number i is labelled candidate_actions[i]
FailureLines(rs, cands) ==
    LET idx == SelectSeq([j \in 1..Len(rs) |-> j], LAMBDA j : ~rs[j].ok)
    IN [j \in 1..Len(idx) |-> [named |-> cands[idx[j]],
                               raised_by |-> rs[idx[j]].action]]

\* variant: the total is assigned from each usage instead of added to
RoundTotalAssigned(rs) ==
    LET oks == SelectSeq(rs, LAMBDA r : r.ok)
    IN IF oks = << >> THEN 0 ELSE oks[Len(oks)].total_tokens

\* round_total_tokens: the usage totals of the results that are no
\* exceptions, added up in results order
RECURSIVE RoundTotal(_)
RoundTotal(rs) ==
    IF rs = << >> THEN 0
    ELSE RoundTotal(SubSeq(rs, 1, Len(rs) - 1))
         + (IF rs[Len(rs)].ok THEN rs[Len(rs)].total_tokens ELSE 0)

\* generate_and_evaluate_node after the pool has joined: aggregation and
\* return; send_or_response_node merges the returned keys into the state
Aggregate ==
    /\ pc = "running"
    /\ \A i \in 1..Len(unit) : unit[i].status # "running"
    /\ failure_entries' = FailureLines(results, candidate_actions)
    /\ IF Evaluated(results) = << >>
       THEN /\ last_message' = Apology
            /\ UNCHANGED evaluated_responses
       ELSE /\ evaluated_responses' = Evaluated(results)
            /\ UNCHANGED last_message
    /\ stored_stage' = None
    /\ round_token_used' = RoundTotal(results)
    /\ pc' = "select"
    /\ UNCHANGED << otherVars, unitVars, schedVars, gatherVars >>
    /\ UNCHANGED << turn, turn_count, inp, stage_read, new_stage,
                    prev_produced, candidate_actions, unit, results >>

\* send_or_response_node after its last_message is known: the token_usage
\* the turn puts out. A message that is empty after strip() skips the
\* accounting, and the channel keeps what the turn before wrote.
SentUsage(message, round_used) ==
    IF message.kind # "empty"
    THEN TokenUsage(round_used, token_total_used) ELSE token_usage

\* token_total_used as the thread keeps it after the node returned
SentTotal(message, round_used) ==
    IF message.kind # "empty"
    THEN Kept(AgentStateKeys, "token_total_used",
              TokenUsage(round_used, token_total_used).total_used)
    ELSE token_total_used

\* self_verification_node, and the return of send_or_response_node with the
\* token accounting of the turn
SelfVerification ==
    /\ pc = "select"
    /\ last_message' = SelectedText(evaluated_responses)
    /\ stored_stage' = None
    /\ prev_produced' = new_stage
    /\ token_usage' =
          SentUsage(SelectedText(evaluated_responses),
                    Value(round_token_used))
    /\ token_total_used' =
          SentTotal(SelectedText(evaluated_responses),
                    Value(round_token_used))
    /\ token_reports' =
          Append(token_reports,
                 SentUsage(SelectedText(evaluated_responses),
                           Value(round_token_used)))
    /\ pc' = "replied"
    /\ UNCHANGED << marketingVars, unitVars, schedVars, gatherVars, round_token_used >>
    /\ UNCHANGED << turn, turn_count, inp, stage_read, new_stage,
                    candidate_actions, unit, results, failure_entries,
                    evaluated_responses >>

\* a unit returns an evaluated response whose text is the empty string: the
\* generation model answered {"response": ""} or {"response": null}, or the
\* unit failed before its response existed and recorded ""
UnitReturnsEmpty(i, score, generation_total, evaluation_total) ==
    /\ pc = "running"
    /\ unit[i].status = "running"
    /\ unit' = [unit EXCEPT ![i] =
                    [status |-> "returned", score |-> score,
                     response |-> EmptyText,
                     generation_total |-> generation_total,
                     evaluation_total |-> evaluation_total]]
    /\ results' =
          Append(results,
                 [ok |-> TRUE, unit |-> i, action |-> candidate_actions[i],
                  response |-> EmptyText, score |-> score,
                  total_tokens |-> generation_total + evaluation_total])
    /\ UNCHANGED << otherVars, unitVars, schedVars, gatherVars, round_token_used >>
    /\ UNCHANGED << pc, turn, turn_count, inp, stored_stage, stage_read,
                    new_stage, prev_produced, candidate_actions,
                    failure_entries, evaluated_responses, last_message >>

\* --------------------------------- one call of _generate_and_evaluate_action
\* customer_intent_level or "low"
LevelOrLow(customer_intent_level) ==
    IF customer_intent_level = None THEN "low" ELSE customer_intent_level

\* the rule-based score of the running call
RuleScore ==
    FallbackEvaluation(call_args.action, call_response,
                       call_args.current_stage, call_args.emotional_state,
                       LevelOrLow(call_args.customer_intent_level))

\* the unit fails before its response exists (building the prompt, creating
\* the model): the outer handler records "" with its rule-based score
UnitSetupRaises ==
    /\ call_pc = "generate"
    /\ call_response' = EmptyResponse
    /\ call_feedback' = NotReached
    /\ call_score' =
          FallbackEvaluation(call_args.action, EmptyResponse,
                             call_args.current_stage,
                             call_args.emotional_state,
                             LevelOrLow(call_args.customer_intent_level))
    /\ call_pc' = "done"
    /\ UNCHANGED << otherVars, gatherVars, call_args, sessionVars, schedVars >>

\* the generation model answered and _safe_json_parse found a response
GenerationReturns(text) ==
    /\ call_pc = "generate"
    /\ call_response' = text
    /\ call_pc' = "evaluate"
    /\ UNCHANGED << otherVars, gatherVars, call_args, call_feedback, call_score, sessionVars,
                    schedVars >>

\* the generation model raised or answered nothing usable: canned reply
GenerationFails ==
    /\ call_pc = "generate"
    /\ call_response' = FallbackResponse(call_args.action)
    /\ call_pc' = "evaluate"
    /\ UNCHANGED << otherVars, gatherVars, call_args, call_feedback, call_score, sessionVars,
                    schedVars >>

\* feedback_sampler.invoke raises
EvaluatorRaises ==
    /\ call_pc = "evaluate"
    /\ call_feedback' = EvaluatorRaised
    /\ call_score' = RuleScore
    /\ call_pc' = "done"
    /\ UNCHANGED << otherVars, gatherVars, call_args, call_response, sessionVars, schedVars >>

\* feedback_sampler.invoke returns; the feedback is parsed and scored
EvaluatorReturns(feedback) ==
    /\ call_pc = "evaluate"
    /\ call_feedback' = feedback
    /\ call_score' = IF FeedbackRaises(feedback) THEN RuleScore
                     ELSE FeedbackScore(feedback)
    /\ call_pc' = "done"
    /\ UNCHANGED << otherVars, gatherVars, call_args, call_response, sessionVars, schedVars >>

\* ---------------------------------------------------- one scheduler call
\* the timestamp the node hands to the prompt builder: None becomes now
PassedTime(x, now_t) ==
    IF x.kind \in {"none", "absent"} THEN Time(now_t) ELSE x

\* parse_event_decision: the JSON object of the response, or the default
EventDecision(response, now_t) ==
    IF response.json
    THEN [event_type |-> response.event_type,
          event_time |-> response.event_time]
    ELSE [event_type |-> "pending_activation", event_time |-> Time(now_t)]

\* variant: any value the decision holds becomes the event type
DecidedEventTypeUnchecked(event_decision) == event_decision.event_type

\* EventType(event_decision.get("event_type", "pending_activation")), with
\* PENDING_ACTIVATION for a value that is no EventType
DecidedEventType(event_decision) ==
    IF event_decision.event_type \in EventTypes
    THEN event_decision.event_type ELSE "pending_activation"

\* the event_time the node reads from the decision, now when it is missing
\* or datetime.fromisoformat rejects it
DecidedEventTime(event_decision, now_t) ==
    IF event_decision.event_time.kind = "time"
    THEN event_decision.event_time.t ELSE now_t

\* EventInstance(event_type, event_time) built from a decision
DecidedEvent(event_decision, now_t) ==
    [event_type |-> DecidedEventType(event_decision),
     event_time |-> DecidedEventTime(event_decision, now_t)]

\* user_last_reply_time as event_triggered_node returns it:
\* state_dict.get("user_last_reply_time", "")
TriggeredReplyTime(x) == IF x.kind = "absent" THEN EmptyTime ELSE x

\* the dict both nodes return from their except branch
ErrorResult ==
    [event_instance |-> NoEvent, user_last_reply_time |-> NoTime,
     last_active_send_time |-> NoTime, error |-> TRUE]

\* schedule_event_node: the notification is posted when the state holds an
\* event instance (with assistant_id and thread_id present) whose event_time
\* is later than the clock the node reads
ScheduleEventSends(event_instance, current_time) ==
    /\ event_instance # NoEvent
    /\ event_instance.event_time > current_time

\* event_triggered_node, no human message in the history: the prompt builder
\* returns the connection_attempt event itself and no model is called
EventTriggeredHardOverride ==
    /\ sched_pc = "ready"
    /\ sched_state.event_happens
    /\ sched_state.human_msg_count = 0
    /\ \E t \in HardOverrideTimes(now,
                   PassedTime(sched_state.last_active_send_time, now)) :
          sched_result' =
             [event_instance |->
                 DecidedEvent([event_type |-> "connection_attempt",
                               event_time |-> Time(t)], now),
              user_last_reply_time |->
                 TriggeredReplyTime(sched_state.user_last_reply_time),
              last_active_send_time |-> Time(FloorMinute(now)),
              error |-> FALSE]
    /\ sched_pc' = "returned"
    /\ UNCHANGED << otherVars, gatherVars, sched_state, now, decision_response, sessionVars,
                    unitVars >>

\* event_triggered_node, the decision model answers
EventTriggeredDecision(response) ==
    /\ sched_pc = "ready"
    /\ sched_state.event_happens
    /\ sched_state.human_msg_count > 0
    /\ decision_response' = response
    /\ sched_result' =
          [event_instance |-> DecidedEvent(EventDecision(response, now), now),
           user_last_reply_time |->
              TriggeredReplyTime(sched_state.user_last_reply_time),
           last_active_send_time |-> Time(FloorMinute(now)),
           error |-> FALSE]
    /\ sched_pc' = "returned"
    /\ UNCHANGED << otherVars, gatherVars, sched_state, now, sessionVars, unitVars >>

\* event_triggered_node, the call of the decision model raises
EventTriggeredRaises ==
    /\ sched_pc = "ready"
    /\ sched_state.event_happens
    /\ sched_state.human_msg_count > 0
    /\ sched_result' = ErrorResult
    /\ sched_pc' = "returned"
    /\ UNCHANGED << otherVars, gatherVars, sched_state, now, decision_response, sessionVars,
                    unitVars >>

\* event_untriggered_node, the decision model answers
EventUntriggeredDecision(response) ==
    /\ sched_pc = "ready"
    /\ ~sched_state.event_happens
    /\ decision_response' = response
    /\ sched_result' =
          [event_instance |-> DecidedEvent(EventDecision(response, now), now),
           user_last_reply_time |-> Time(FloorMinute(now)),
           last_active_send_time |-> Time(FloorMinute(now)),
           error |-> FALSE]
    /\ sched_pc' = "returned"
    /\ UNCHANGED << otherVars, gatherVars, sched_state, now, sessionVars, unitVars >>

\* event_untriggered_node, the call of the decision model raises
EventUntriggeredRaises ==
    /\ sched_pc = "ready"
    /\ ~sched_state.event_happens
    /\ sched_result' = ErrorResult
    /\ sched_pc' = "returned"
    /\ UNCHANGED << otherVars, gatherVars, sched_state, now, decision_response, sessionVars,
                    unitVars >>

\* ------------------------------ the three evaluator calls of _design_node
\* evaluate_state returns the state built from the reply of its model
EvaluateStateReturns(reply) ==
    /\ pc = "gather"
    /\ evaluation_result.status = "running"
    /\ evaluation_result' =
          [status |-> "returned",
           emotional_state |->
              SafeCreateEmotionalState(RobustJsonParse(reply)),
           customer_intent_level |-> reply.customer_intent_level]
    /\ UNCHANGED << otherVars, sessionVars, unitVars, schedVars, intent_result,
                    judge_invitation_result, existing_state >>

\* evaluate_state returns {}: no prompt file or no evaluation model
EvaluateStateReturnsEmpty ==
    /\ pc = "gather"
    /\ evaluation_result.status = "running"
    /\ evaluation_result' = NoEvaluation("empty")
    /\ UNCHANGED << otherVars, sessionVars, unitVars, schedVars, intent_result,
                    judge_invitation_result, existing_state >>

\* evaluate_state raises; gather hands the exception over as its result
EvaluateStateRaises ==
    /\ pc = "gather"
    /\ evaluation_result.status = "running"
    /\ evaluation_result' = NoEvaluation("exception")
    /\ UNCHANGED << otherVars, sessionVars, unitVars, schedVars, intent_result,
                    judge_invitation_result, existing_state >>

\* analyze_customer_intent returns a classified intent
AnalyzeCustomerIntentReturns(customer_intent) ==
    /\ pc = "gather"
    /\ intent_result.status = "running"
    /\ intent_result' =
          [status |-> "returned", customer_intent |-> customer_intent]
    /\ UNCHANGED << otherVars, sessionVars, unitVars, schedVars, evaluation_result,
                    judge_invitation_result, existing_state >>

\* analyze_customer_intent returns {}: its model failed or named no intent
AnalyzeCustomerIntentReturnsEmpty ==
    /\ pc = "gather"
    /\ intent_result.status = "running"
    /\ intent_result' = NoIntentResult("empty")
    /\ UNCHANGED << otherVars, sessionVars, unitVars, schedVars, evaluation_result,
                    judge_invitation_result, existing_state >>

AnalyzeCustomerIntentRaises ==
    /\ pc = "gather"
    /\ intent_result.status = "running"
    /\ intent_result' = NoIntentResult("exception")
    /\ UNCHANGED << otherVars, sessionVars, unitVars, schedVars, evaluation_result,
                    judge_invitation_result, existing_state >>

\* judge_invitation_state returns its dict
JudgeInvitationStateReturns(invitation_status) ==
    /\ pc = "gather"
    /\ judge_invitation_result.status = "running"
    /\ judge_invitation_result' =
          [status |-> "returned", invitation_status |-> invitation_status]
    /\ UNCHANGED << otherVars, sessionVars, unitVars, schedVars, evaluation_result,
                    intent_result, existing_state >>

JudgeInvitationStateRaises ==
    /\ pc = "gather"
    /\ judge_invitation_result.status = "running"
    /\ judge_invitation_result' = NoJudgement("exception")
    /\ UNCHANGED << otherVars, sessionVars, unitVars, schedVars, evaluation_result,
                    intent_result, existing_state >>

\* _design_node after the await: exceptions become empty dicts, the inputs
\* are read from the three results and the decision is taken
DesignNodeJoined ==
    /\ pc = "gather"
    /\ GatherDone({evaluation_result.status, intent_result.status,
                   judge_invitation_result.status})
    /\ LET joined == JoinedInput(evaluation_result, intent_result,
                                 judge_invitation_result, existing_state)
           current_stage == ReadStage(stored_stage)
           stage == NewStage(current_stage, turn_count, joined.e,
                             joined.customer_intent)
       IN /\ inp' = joined
          /\ stage_read' = current_stage
          /\ new_stage' = stage
          /\ stored_stage' = stage
          /\ candidate_actions' \in
                Orderings(ToSet(CandidateList(stage, turn_count, joined.e,
                                              joined.customer_intent,
                                              joined.intent,
                                              joined.invitation_status)))
    /\ pc' = "audio"
    /\ UNCHANGED << otherVars, unitVars, schedVars, gatherVars, round_token_used >>
    /\ UNCHANGED << turn, turn_count, prev_produced, unit, results,
                    failure_entries, evaluated_responses, last_message >>

\* The next customer message arrives after a turn that ended in the
\* exception of the audio judge, and the evaluators return what they
\* returned in the turn before.
ReceiveMessageAgain ==
    /\ pc = "raised"
    /\ turn < MaxEvaluations
    /\ pc' = "design"
    /\ turn' = turn + 1
    /\ stage_read' = None
    /\ new_stage' = None
    /\ unit' = << >>
    /\ results' = << >>
    /\ failure_entries' = << >>
    /\ UNCHANGED << otherVars, unitVars, schedVars, gatherVars, round_token_used >>
    /\ UNCHANGED << turn_count, inp, stored_stage, prev_produced,
                    candidate_actions, evaluated_responses, last_message >>

\* ------------------------------------ whole turns, seen from their output
\* the round totals and the reply texts a turn is explored with
RoundTotals == { 0, 3, 8 }
TurnTexts == { Generated(1, "rapport_building"), EmptyText }

\* send_or_response_node when send_response_yes_or_no is false: nothing is
\* sent and the turn reports no use
NoReplyTurn ==
    /\ pc \in {"idle", "replied"}
    /\ Len(token_reports) < MaxReports
    /\ last_message' = EmptyText
    /\ token_usage' = TokenUsageNoReply(token_total_used)
    /\ token_reports' =
          Append(token_reports, TokenUsageNoReply(token_total_used))
    /\ pc' = "replied"
    /\ UNCHANGED << token_total_used, marketingVars, unitVars, schedVars, gatherVars >>
    /\ UNCHANGED << turn, turn_count, inp, stored_stage, stage_read,
                    new_stage, prev_produced, candidate_actions, unit,
                    results, failure_entries, evaluated_responses,
                    round_token_used >>

\* send_or_response_node on a customer message, from the return of the
\* pipeline on: round_token_used is the total the pipeline returned and
\* message the text the selector returned
UserReplyTurn(round_total, message) ==
    /\ pc \in {"idle", "replied"}
    /\ Len(token_reports) < MaxReports
    /\ round_token_used' = round_total
    /\ last_message' = message
    /\ token_usage' = SentUsage(message, Value(round_total))
    /\ token_total_used' = SentTotal(message, Value(round_total))
    /\ token_reports' =
          Append(token_reports, SentUsage(message, Value(round_total)))
    /\ pc' = "replied"
    /\ UNCHANGED << marketingVars, unitVars, schedVars, gatherVars >>
    /\ UNCHANGED << turn, turn_count, inp, stored_stage, stage_read,
                    new_stage, prev_produced, candidate_actions, unit,
                    results, failure_entries, evaluated_responses >>

\* send_or_response_node on a fired event: the event sub-graph supplied the
\* message; round_token_used is read from the state the thread kept. An
\* empty message takes the branch that reports no use.
SalesReplyTurn(message) ==
    /\ pc \in {"idle", "replied"}
    /\ Len(token_reports) < MaxReports
    /\ last_message' = message
    /\ LET round_used ==
              Kept(AgentStateKeys, "round_token_used", round_token_used)
           usage ==
              IF message.kind # "empty"
              THEN TokenUsage(round_used, token_total_used)
              ELSE TokenUsageNoReply(token_total_used)
       IN /\ token_usage' = usage
          /\ token_total_used' =
                IF message.kind # "empty"
                THEN Kept(AgentStateKeys, "token_total_used",
                          usage.total_used)
                ELSE token_total_used
          /\ token_reports' = Append(token_reports, usage)
    /\ pc' = "replied"
    /\ UNCHANGED << marketingVars, unitVars, schedVars, gatherVars >>
    /\ UNCHANGED << turn, turn_count, inp, stored_stage, stage_read,
                    new_stage, prev_produced, candidate_actions, unit,
                    results, failure_entries, evaluated_responses,
                    round_token_used >>

\* ------------------------------ marketing assistant: the nodes of one run
\* input_step: clear_round_data and init_round_data rebind the module-level
\* dict, each to a fresh dict with a fresh list; the list of the first is
\* dropped at once and only the second is kept here
InputStep(s) ==
    /\ step_pc[s] = "input"
    /\ LET current_round_id == graph_state[s].round_id + 1
       IN /\ current_round_data' =
                RoundData(current_round_id, UserInput(s, current_round_id),
                          Len(execution_lists) + 1)
          /\ graph_state' =
                [graph_state EXCEPT ![s].round_id = current_round_id,
                                    ![s].current_step = "plan"]
    /\ execution_lists' = Append(execution_lists, << >>)
    /\ step_pc' = [step_pc EXCEPT ![s] = "plan"]
    /\ UNCHANGED << round_data, plans_installed >>
    /\ UNCHANGED << sessionVars, unitVars, schedVars, gatherVars, usageVars >>

\* plan_step up to its await: get_round_data copies the dict, and the
\* planner is asked about the user_input of the copy
PlanStepReads(s) ==
    /\ step_pc[s] = "plan"
    /\ round_data' = [round_data EXCEPT ![s] = current_round_data]
    /\ step_pc' = [step_pc EXCEPT ![s] = "planning"]
    /\ UNCHANGED << current_round_data, execution_lists, graph_state,
                    plans_installed >>
    /\ UNCHANGED << sessionVars, unitVars, schedVars, gatherVars, usageVars >>

\* plan_step after the planner answered: set_round_data writes into the
\* dict the module holds now; without a planned tool the run goes to
\* final_output with a one-step plan
PlanStepReturns(s, plan_result) ==
    /\ step_pc[s] = "planning"
    /\ current_round_data' =
          [current_round_data EXCEPT
              !.plan = PlanSteps(plan_result.steps),
              !.planned_tools = plan_result.planned_tools,
              !.conversation_type = plan_result.conversation_type]
    /\ IF plan_result.planned_tools = << >>
       THEN /\ graph_state' =
                  [graph_state EXCEPT ![s].plan = Steps(1),
                                      ![s].current_step = "complete"]
            /\ step_pc' = [step_pc EXCEPT ![s] = "final_output"]
       ELSE /\ graph_state' =
                  [graph_state EXCEPT
                      ![s].plan = PlanSteps(plan_result.steps),
                      ![s].current_step = "plan"]
            /\ step_pc' = [step_pc EXCEPT ![s] = "execute"]
    /\ UNCHANGED << execution_lists, round_data, plans_installed >>
    /\ UNCHANGED << sessionVars, unitVars, schedVars, gatherVars, usageVars >>

\* execute_step up to its await: the copy of the dict shares the list
\* object under execution_results; an empty plan raises
ExecuteStepReads(s) ==
    /\ step_pc[s] = "execute"
    /\ round_data' = [round_data EXCEPT ![s] = current_round_data]
    /\ step_pc' =
          [step_pc EXCEPT ![s] =
              IF graph_state[s].plan = << >> THEN "raised" ELSE "executing"]
    /\ UNCHANGED << current_round_data, execution_lists, graph_state,
                    plans_installed >>
    /\ UNCHANGED << sessionVars, unitVars, schedVars, gatherVars, usageVars >>

\* execute_step after the executor answered: the result is appended to the
\* list object read before the await, and that list is put under
\* execution_results of the dict the module holds now; the first step leaves
\* the plan, and _should_continue picks the next node
ExecuteStepReturns(s, copy) ==
    /\ step_pc[s] = "executing"
    /\ copy \in ExecutionCopies(round_data[s])
    /\ LET list == round_data[s].execution_results
           lists ==
              [execution_lists EXCEPT
                  ![list] = Append(@, [session |-> s, copy |-> copy])]
           data == [current_round_data EXCEPT !.execution_results = list]
           state ==
              [graph_state[s] EXCEPT !.plan = Tail(@),
                                     !.current_step = "execute"]
       IN /\ execution_lists' = lists
          /\ current_round_data' = data
          /\ graph_state' = [graph_state EXCEPT ![s] = state]
          /\ step_pc' =
                [step_pc EXCEPT ![s] =
                    IF ShouldContinue(state, data, lists[list]) = "continue"
                    THEN "replan" ELSE "final_output"]
    /\ UNCHANGED << round_data, plans_installed >>
    /\ UNCHANGED << sessionVars, unitVars, schedVars, gatherVars, usageVars >>

\* replan_step: an empty plan raises; with retry_count at max_retries the
\* node completes without asking; else it reads the round data and the
\* replanner answers. A Plan replaces the plan and returns retry_count + 1.
\* The edge from replan leads to execute in every case.
ReplanStep(s, replan_result) ==
    /\ step_pc[s] = "replan"
    /\ IF graph_state[s].plan = << >>
       THEN /\ step_pc' = [step_pc EXCEPT ![s] = "raised"]
            /\ UNCHANGED << graph_state, round_data, plans_installed >>
       ELSE IF StateGet(graph_state[s].retry_count, 0) >= max_retries
       THEN /\ graph_state' =
                  [graph_state EXCEPT ![s].current_step = "complete"]
            /\ step_pc' = [step_pc EXCEPT ![s] = "execute"]
            /\ UNCHANGED << round_data, plans_installed >>
       ELSE IF replan_result.kind = "Response"
       THEN /\ round_data' = [round_data EXCEPT ![s] = current_round_data]
            /\ graph_state' =
                  [graph_state EXCEPT ![s].current_step = "complete"]
            /\ step_pc' = [step_pc EXCEPT ![s] = "execute"]
            /\ UNCHANGED plans_installed
       ELSE /\ plans_installed[s] < MaxReplans
            /\ round_data' = [round_data EXCEPT ![s] = current_round_data]
            /\ graph_state' =
                  [graph_state EXCEPT
                      ![s].plan = Steps(replan_result.steps),
                      ![s].current_step = "execute",
                      ![s].retry_count =
                          Kept(ChatMarketingStateKeys, "retry_count",
                               StateGet(graph_state[s].retry_count, 0) + 1)]
            /\ plans_installed' =
                  [plans_installed EXCEPT ![s] = @ + 1]
            /\ step_pc' = [step_pc EXCEPT ![s] = "execute"]
    /\ UNCHANGED << current_round_data, execution_lists >>
    /\ UNCHANGED << sessionVars, unitVars, schedVars, gatherVars, usageVars >>

\* create_final_output: it reads the round data, raises on an empty
\* user_input, and returns the reply to the user_input it read together
\* with the copies found in the list it read
FinalOutput(s) ==
    /\ step_pc[s] = "final_output"
    /\ round_data' = [round_data EXCEPT ![s] = current_round_data]
    /\ IF current_round_data.user_input = NoUserInput
       THEN /\ step_pc' = [step_pc EXCEPT ![s] = "raised"]
            /\ UNCHANGED graph_state
       ELSE /\ graph_state' =
                  [graph_state EXCEPT
                      ![s].response =
                          Response(current_round_data.user_input,
                                   MarketingCopySuccess(
                                      execution_lists[
                                         current_round_data
                                            .execution_results])),
                      ![s].current_step = "complete"]
            /\ step_pc' = [step_pc EXCEPT ![s] = "print_memory"]
    /\ UNCHANGED << current_round_data, execution_lists, plans_installed >>
    /\ UNCHANGED << sessionVars, unitVars, schedVars, gatherVars, usageVars >>

\* print_conversation_memory reads the round data and returns {}
PrintMemory(s) ==
    /\ step_pc[s] = "print_memory"
    /\ round_data' = [round_data EXCEPT ![s] = current_round_data]
    /\ step_pc' = [step_pc EXCEPT ![s] = "end"]
    /\ UNCHANGED << current_round_data, execution_lists, graph_state,
                    plans_installed >>
    /\ UNCHANGED << sessionVars, unitVars, schedVars, gatherVars, usageVars >>

\* the model call a node awaits raises (an invalid conversation_type of the
\* planner's answer raises as well), and the node raises it again
ModelCallRaises(s) ==
    /\ step_pc[s] \in {"planning", "executing", "replan", "final_output"}
    /\ step_pc' = [step_pc EXCEPT ![s] = "raised"]
    /\ UNCHANGED << current_round_data, execution_lists, graph_state,
                    round_data, plans_installed >>
    /\ UNCHANGED << sessionVars, unitVars, schedVars, gatherVars, usageVars >>

Next ==
    \/ ReceiveMessage
    \/ DesignNode
    \/ SubgraphsAborted
    \/ AudioDecided
    \/ AudioJudgeRaises
    \/ SubmitUnits
    \/ \E i \in 1..3, score \in SessionScores :
          i <= Len(unit) /\ UnitReturns(i, score, 0, 0)
    \/ \E i \in 1..3 : i <= Len(unit) /\ UnitRaises(i)
    \/ Aggregate
    \/ SelfVerification

Spec == Init /\ [][Next]_vars

\* one call of the pipeline and the selector, over all scores
NextPipeline ==
    \/ SubmitUnits
    \/ \E i \in 1..3, score \in ScoreValues :
          i <= Len(unit) /\ UnitReturns(i, score, 0, 0)
    \/ \E i \in 1..3, score \in ScoreValues :
          i <= Len(unit) /\ UnitReturnsEmpty(i, score, 0, 0)
    \/ \E i \in 1..3 : i <= Len(unit) /\ UnitRaises(i)
    \/ Aggregate
    \/ SelfVerification

SpecPipeline == InitPipeline /\ [][NextPipeline]_vars

\* the pure decision function of _design_node over all its inputs
NextDesign == DesignNode

SpecDesign == InitDesign /\ [][NextDesign]_vars

\* one call of _generate_and_evaluate_action
NextUnit ==
    \/ UnitSetupRaises
    \/ \E text \in UnitTexts : GenerationReturns(text)
    \/ GenerationFails
    \/ EvaluatorRaises
    \/ \E feedback \in Feedbacks : EvaluatorReturns(feedback)

SpecUnit == InitUnit /\ [][NextUnit]_vars

\* _fallback_evaluation applied to every argument list
NextFallback == EvaluatorRaises

SpecFallback == InitFallback /\ [][NextFallback]_vars

\* one call of the proactive scheduler
NextScheduler ==
    \/ EventTriggeredHardOverride
    \/ \E response \in DecisionResponses(now) :
          EventTriggeredDecision(response)
    \/ EventTriggeredRaises
    \/ \E response \in DecisionResponses(now) :
          EventUntriggeredDecision(response)
    \/ EventUntriggeredRaises

SpecScheduler == InitScheduler /\ [][NextScheduler]_vars

\* the three evaluator calls of one turn, their join and the decision
NextGather ==
    \/ \E reply \in EvaluatorReplies : EvaluateStateReturns(reply)
    \/ EvaluateStateReturnsEmpty
    \/ EvaluateStateRaises
    \/ \E customer_intent \in GatherIntents :
          AnalyzeCustomerIntentReturns(customer_intent)
    \/ AnalyzeCustomerIntentReturnsEmpty
    \/ AnalyzeCustomerIntentRaises
    \/ \E invitation_status \in InvitationStatuses :
          JudgeInvitationStateReturns(invitation_status)
    \/ JudgeInvitationStateRaises
    \/ DesignNodeJoined

SpecGather == InitGather /\ [][NextGather]_vars

\* one call of the pipeline and the selector, over all token usages
NextTokens ==
    \/ SubmitUnits
    \/ \E i \in 1..3, score \in SessionScores,
          generation_total \in TokenCounts, evaluation_total \in TokenCounts :
          i <= Len(unit)
          /\ UnitReturns(i, score, generation_total, evaluation_total)
    \/ \E i \in 1..3 : i <= Len(unit) /\ UnitRaises(i)
    \/ Aggregate
    \/ SelfVerification

SpecTokens == InitTokens /\ [][NextTokens]_vars

\* consecutive turns with constant evaluator outputs on a thread that keeps
\* its stage: each turn ends where send_or_response_node raises, before the
\* pipeline and the selector rebuild debug_info
NextStage ==
    \/ DesignNode
    \/ AudioJudgeRaises
    \/ ReceiveMessageAgain

SpecStage == InitStage /\ [][NextStage]_vars


\* turns of one thread, each seen from the token usage it puts out
InitUsage ==
    /\ SessionIdle
    /\ UnitIdle
    /\ SchedulerIdle
    /\ GatherIdle
    /\ UsageIdle
    /\ MarketingIdle

NextUsage ==
    \/ NoReplyTurn
    \/ \E round_total \in RoundTotals, message \in TurnTexts :
          UserReplyTurn(round_total, message)
    \/ \E message \in TurnTexts : SalesReplyTurn(message)

SpecUsage == InitUsage /\ [][NextUsage]_vars

\* two marketing sessions, each with one run, in one process
InitMarketing ==
    /\ SessionIdle
    /\ UnitIdle
    /\ SchedulerIdle
    /\ GatherIdle
    /\ UsageIdle
    /\ current_round_data = InitialRoundData
    /\ execution_lists = << << >> >>
    /\ step_pc = [s \in Sessions |-> "input"]
    /\ graph_state = [s \in Sessions |-> NoGraphState]
    /\ round_data = [s \in Sessions |-> InitialRoundData]
    /\ plans_installed = [s \in Sessions |-> 0]

\* the planner and replanner answers two concurrent runs are explored with:
\* full-length or direct plans, and replans of at most one step
ConcurrentPlanResults ==
    { r \in PlanResults : r.steps = MaxSteps \/ r.planned_tools = << >> }
ConcurrentReplanResults == { r \in ReplanResults : r.steps <= 1 }

NextMarketing ==
    \E s \in Sessions :
       \/ InputStep(s)
       \/ PlanStepReads(s)
       \/ \E plan_result \in ConcurrentPlanResults :
             PlanStepReturns(s, plan_result)
       \/ ExecuteStepReads(s)
       \/ \E copy \in BOOLEAN : ExecuteStepReturns(s, copy)
       \/ \E replan_result \in ConcurrentReplanResults :
             ReplanStep(s, replan_result)
       \/ FinalOutput(s)
       \/ PrintMemory(s)
       \/ ModelCallRaises(s)

SpecMarketing == InitMarketing /\ [][NextMarketing]_vars


\* one marketing session runs alone
InitReplan ==
    /\ SessionIdle
    /\ UnitIdle
    /\ SchedulerIdle
    /\ GatherIdle
    /\ UsageIdle
    /\ current_round_data = InitialRoundData
    /\ execution_lists = << << >> >>
    /\ step_pc = [s \in Sessions |-> IF s = 1 THEN "input" ELSE "idle"]
    /\ graph_state = [s \in Sessions |-> NoGraphState]
    /\ round_data = [s \in Sessions |-> InitialRoundData]
    /\ plans_installed = [s \in Sessions |-> 0]

NextReplan ==
    \E s \in Sessions :
       \/ InputStep(s)
       \/ PlanStepReads(s)
       \/ \E plan_result \in PlanResults : PlanStepReturns(s, plan_result)
       \/ ExecuteStepReads(s)
       \/ \E copy \in BOOLEAN : ExecuteStepReturns(s, copy)
       \/ \E replan_result \in ReplanResults : ReplanStep(s, replan_result)
       \/ FinalOutput(s)
       \/ PrintMemory(s)
       \/ ModelCallRaises(s)

SpecReplan == InitReplan /\ [][NextReplan]_vars

\* ----------------------------------------------------------------- claims
Designed == pc = "audio" /\ new_stage # None

\* C1: for every stage, turn count, emotional state, intent, intent level
\* and invitation status, the candidate set returned by _design_node holds
\* at least one and at most three actions.
C1_CandidateSetSize ==
    Designed => /\ Cardinality(ToSet(candidate_actions)) \in 1..3
                /\ Len(candidate_actions) \in 1..3

\* a fake-high customer of low trust: the override list plus reverse_probe
\* makes four actions before the cut to three
C1_Witness ==
    /\ Designed
    /\ inp.e.trust_level < 30
    /\ inp.customer_intent = "fake_high"
    /\ Len(candidate_actions) = 3

\* C2: with trust 0.1 the returned candidate set is exactly
\* {rapport_building, stress_response, needs_analysis}, whatever the stage,
\* the turn count, the other levels, the intent and the invitation status.
C2_LowTrustSet ==
    (Designed /\ inp.e.trust_level = 10) =>
        ToSet(candidate_actions) =
            {"rapport_building", "stress_response", "needs_analysis"}

C2_Witness ==
    /\ Designed
    /\ inp.e.trust_level = 10
    /\ inp.invitation_status = 1
    /\ inp.customer_intent = "fake_high"
    /\ ToSet(candidate_actions) =
          {"rapport_building", "stress_response", "needs_analysis"}

RegressionFired ==
    \/ /\ inp.e.comfort_level < 30
       /\ stage_read \notin {"initial_contact", "ice_breaking"}
       /\ new_stage = "ice_breaking"
    \/ /\ inp.e.trust_level < 20
       /\ stage_read # "initial_contact"
       /\ new_stage = "initial_contact"

\* C4: one evaluation of the stage state machine yields the input stage,
\* its immediate successor, or an earlier stage set by a regression rule.
C4_AtMostOneStepForward ==
    Designed =>
        \/ new_stage = stage_read
        \/ StageIndex(new_stage) = StageIndex(stage_read) + 1
        \/ /\ StageIndex(new_stage) < StageIndex(stage_read)
           /\ RegressionFired

\* a forward move although the guard of the following stage holds as well
C4_Witness ==
    /\ Designed
    /\ stage_read = "ice_breaking"
    /\ new_stage = "subtle_expertise"
    /\ inp.e.trust_level > 40

\* C5: regression overrides forward evaluation: comfort < 0.3 outside
\* initial_contact and ice_breaking yields ice_breaking; otherwise
\* trust < 0.2 outside initial_contact yields initial_contact.
C5_RegressionOverrides ==
    Designed =>
        LET low_comfort ==
              /\ inp.e.comfort_level < 30
              /\ stage_read \notin {"initial_contact", "ice_breaking"}
        IN /\ low_comfort => new_stage = "ice_breaking"
           /\ (~low_comfort /\ inp.e.trust_level < 20
               /\ stage_read # "initial_contact")
                 => new_stage = "initial_contact"

\* the forward guard of subtle_expertise holds and regression still wins
C5_Witness ==
    /\ Designed
    /\ stage_read = "subtle_expertise"
    /\ inp.e.trust_level > 40
    /\ inp.e.comfort_level < 30
    /\ new_stage = "ice_breaking"

Raised == { i \in 1..Len(unit) : unit[i].status = "raised" }
Returned == { i \in 1..Len(unit) : unit[i].status = "returned" }
PipelineReturned == pc \in {"select", "replied"}

\* C6: with n candidate actions of which k units raise, in every
\* completion order the pipeline call returns, its list of evaluated
\* responses has n - k entries, the trace gets k failure entries, and every
\* unit that did not fail has its own response and score in the list.
C6_FailureIsolation ==
    /\ pc # "raised"
    /\ PipelineReturned =>
         /\ Len(results) = Len(candidate_actions)
         /\ Len(failure_entries) = Cardinality(Raised)
         /\ Len(Evaluated(results)) =
               Len(candidate_actions) - Cardinality(Raised)
         /\ Cardinality(Raised) < Len(candidate_actions)
               => /\ Len(evaluated_responses) =
                        Len(candidate_actions) - Cardinality(Raised)
                  /\ \A i \in Returned :
                        \E j \in 1..Len(evaluated_responses) :
                           evaluated_responses[j] =
                              [action |-> candidate_actions[i],
                               response |-> unit[i].response,
                               score |-> unit[i].score]

\* three candidates, the second unit raises and completes first
C6_Witness ==
    /\ PipelineReturned
    /\ Len(candidate_actions) = 3
    /\ Raised = {2}
    /\ results[1].unit = 2
    /\ Len(evaluated_responses) = 2
    /\ Len(failure_entries) = 1

Tier(rs) ==
    IF \E i \in 1..Len(rs) : rs[i].score > 30
    THEN { i \in 1..Len(rs) : rs[i].score > 30 }
    ELSE IF \E i \in 1..Len(rs) : rs[i].score > 20
    THEN { i \in 1..Len(rs) : rs[i].score > 20 }
    ELSE 1..Len(rs)

\* C9: for a non-empty list the selector returns the text of a
\* maximum-score element of the first non-empty tier among score > 0.3,
\* score > 0.2 and all responses.
C9_MaxOfFirstTier ==
    (pc = "replied" /\ evaluated_responses # << >>) =>
        \E i \in Tier(evaluated_responses) :
            /\ last_message = evaluated_responses[i].response
            /\ \A j \in Tier(evaluated_responses) :
                  evaluated_responses[j].score <= evaluated_responses[i].score

\* the second tier decides: nothing above 0.3, two responses above 0.2 of
\* which the later one scores higher, and one response below
C9_Witness ==
    /\ pc = "replied"
    /\ Len(evaluated_responses) = 3
    /\ evaluated_responses[1].score = 25
    /\ evaluated_responses[2].score = 20
    /\ evaluated_responses[3].score = 30
    /\ last_message = evaluated_responses[3].response

Reorderings(rs) ==
    { [j \in 1..Len(rs) |-> rs[f[j]]] : f \in Orderings(1..Len(rs)) }

MaxScore(rs) ==
    CHOOSE m \in { rs[i].score : i \in 1..Len(rs) } :
        \A i \in 1..Len(rs) : rs[i].score <= m

\* C10 as stated: for any two orderings of the same evaluated responses the
\* selected reply text is the same.
C10_OrderInsensitiveText ==
    pc = "replied" =>
        \A p \in Reorderings(evaluated_responses) :
            SelectedText(p) = last_message

\* C10 as amended: for any two orderings the selected reply has the same
\* score, and the same text whenever one response alone attains the maximum
\* score; among responses tied at the maximum the earliest in the list wins.
C10_OrderInsensitiveScore ==
    (pc = "replied" /\ evaluated_responses # << >>) =>
        LET rs == evaluated_responses
            top == { i \in 1..Len(rs) : rs[i].score = MaxScore(rs) }
        IN /\ \A p \in Reorderings(rs) :
                 /\ BestResponse(HighQuality(p)).score = MaxScore(rs)
                 /\ Cardinality(top) = 1 => SelectedText(p) = last_message
           /\ \E i \in top :
                 /\ last_message = rs[i].response
                 /\ \A j \in top : i <= j

\* three responses of this turn, the single best one completed last
C10_Witness ==
    /\ pc = "replied"
    /\ Len(evaluated_responses) = 3
    /\ evaluated_responses[1].score = 40
    /\ evaluated_responses[2].score = 40
    /\ evaluated_responses[3].score = 90
    /\ last_message = evaluated_responses[3].response

\* C3: the stage is changed by the stage state machine alone: neither the
\* pipeline nor the selector alters the stored stage, and the stage read at
\* the start of a turn is the one produced in the previous replied turn.
C3_StageChangedOnlyByStateMachine ==
    [][ /\ pc \in {"running", "select"}
              => ReadStage(stored_stage') = ReadStage(stored_stage)
        /\ (pc = "design" /\ pc' = "audio" /\ new_stage' # None
            /\ prev_produced # None)
              => stage_read' = prev_produced ]_vars

\* C7: no exception raised inside the core during a turn reaches the
\* conversation-facing caller.
C7_NoExceptionEscapes == pc # "raised"

\* C8: when every generate/evaluate unit of a turn fails, the reply of the
\* turn is the hard-coded apology string.
C8_TotalFailureApology ==
    (pc = "replied" /\ Len(unit) >= 1 /\ Cardinality(Raised) = Len(unit))
        => last_message = Apology

\* C11: for every list of evaluated responses, the empty list included, the
\* reply text the selector returns is not the empty string.
C11_ReplyNonEmpty ==
    pc = "replied" => last_message \notin { EmptyText, NoText }

UnitDone == call_pc = "done"

\* the evaluation step of the unit failed: the evaluator call raised, or
\* its output held no score and reasoning that could be read
EvaluationFailed ==
    call_feedback.kind \in
        { "raised", "unparsable", "not_object", "no_score",
          "score_not_number" }

\* C12 as stated: whenever the evaluation step of a unit fails, by a raising
\* evaluator call or by an output that cannot be parsed into a score and
\* reasoning, the recorded score is the rule-based fallback score computed
\* from (action, response text, stage, emotional state, intent level).
C12_EvaluationFailureUsesRuleScore ==
    (UnitDone /\ EvaluationFailed) => call_score = RuleScore

\* C12, amended: the recorded score is the rule-based fallback score when
\* the evaluator call raises or the parsed output makes the unit raise (it
\* is no JSON object, or its unvalidated score is no number); it is the
\* default 0.5 when no JSON can be recovered from the output, when the
\* object has no score, or when validation replaced a score that is no
\* number.
C12_EvaluationFailureScore ==
    (UnitDone /\ EvaluationFailed) =>
        IF \/ call_feedback.kind \in {"raised", "not_object"}
           \/ call_feedback.kind = "score_not_number" /\ ~call_feedback.direct
        THEN call_score = RuleScore
        ELSE call_score = 50

\* an unparsable evaluator output on a reply the rules would score 0.9
C12_Witness ==
    /\ UnitDone
    /\ call_feedback.kind = "unparsable"
    /\ call_score = 50
    /\ RuleScore = 90

\* C13: the rule-based fallback score lies in [0.1, 1.0] for every action,
\* response text, stage, emotional state and intent level.
C13_FallbackScoreRange ==
    (UnitDone /\ call_feedback.kind = "raised") =>
        (call_score >= 10 /\ call_score <= 100)

\* active_close towards a customer of low trust, low comfort and low
\* intent: 0.5 - 0.2 - 0.1 - 0.2 is below zero and is cut to 0.1
C13_Witness ==
    /\ UnitDone
    /\ call_feedback.kind = "raised"
    /\ call_args.action = "active_close"
    /\ call_args.current_stage = "ice_breaking"
    /\ call_args.emotional_state = [trust_level |-> 20, comfort_level |-> 20]
    /\ call_args.customer_intent_level = "low"
    /\ call_response.stripped = 4
    /\ call_response.len = 4
    /\ call_score = 10

\* C14: for a response text of length 2 the rule-based fallback score is
\* exactly 0.2 whatever the action, stage, emotional state and intent level.
C14_LengthTwoScore ==
    (UnitDone /\ call_feedback.kind = "raised" /\ call_response.len = 2) =>
        call_score = 20

\* a two-character reply that is a business keyword, for value_display in
\* the stage whose table entry is 0.8
C14_Witness ==
    /\ UnitDone
    /\ call_feedback.kind = "raised"
    /\ call_response.len = 2
    /\ call_response.stripped = 2
    /\ call_response.business
    /\ call_args.action = "value_display"
    /\ call_args.current_stage = "subtle_expertise"
    /\ call_score = 20

SchedReturned == sched_pc = "returned"

\* a triggered-mode call on a conversation without a human message
TriggeredZeroHuman ==
    /\ SchedReturned
    /\ sched_state.event_happens
    /\ sched_state.human_msg_count = 0

\* seconds from last_active_send_time, as the node passes it on, to now
ElapsedSince ==
    now - PassedTime(sched_state.last_active_send_time, now).t

\* seconds from now to the scheduled event_time
Delay == sched_result.event_instance.event_time - now

OverrideFromLastSend ==
    /\ TriggeredZeroHuman
    /\ PassedTime(sched_state.last_active_send_time, now).kind = "time"

C17_SaturdayMorning ==
    (OverrideFromLastSend /\ ElapsedSince > 1440 * Minute) =>
        LET t == sched_result.event_instance.event_time
        IN \/ /\ Weekday(t) = 5
              /\ t > now
              /\ t - now <= 7 * Day
              /\ t % Day >= 7 * Hour
              /\ t % Day <= 9 * Hour
           \/ /\ Weekday(now) = 5
              /\ now % Day >= 7 * Hour
              /\ HourOf(now) < 9
              /\ Delay >= 5 * Minute
              /\ Delay <= 10 * Minute

\* the decision model was asked and the node built an event from its answer
ModelAnswered ==
    /\ SchedReturned
    /\ ~sched_result.error
    /\ decision_response # NoDecisionResponse

\* the answer fails parsing or validation
DecisionInvalid ==
    \/ ~decision_response.json
    \/ decision_response.event_type \notin EventTypes
    \/ decision_response.event_time.kind # "time"

\* C18 as stated: whenever the answer of the decision model fails parsing or
\* validation (no JSON object, an event_type that is not accepted, a missing
\* or unparsable event_time), the resulting event is exactly
\* {pending_activation, now}.
C18_InvalidAnswerGivesDefaultEvent ==
    (ModelAnswered /\ DecisionInvalid) =>
        sched_result.event_instance =
            [event_type |-> "pending_activation", event_time |-> now]

\* C18, amended: an answer without a JSON object gives exactly
\* {pending_activation, now}; in an answer with a JSON object each field is
\* replaced on its own: an event_type that is no EventType becomes
\* pending_activation and a valid one is kept, a missing or unparsable
\* event_time becomes now and a readable one is kept.
C18_InvalidFieldsReplaced ==
    ModelAnswered =>
        LET e == sched_result.event_instance
            a == decision_response
        IN /\ ~a.json =>
                 e = [event_type |-> "pending_activation", event_time |-> now]
           /\ (a.json /\ a.event_type \notin EventTypes) =>
                 e.event_type = "pending_activation"
           /\ (a.json /\ a.event_type \in EventTypes) =>
                 e.event_type = a.event_type
           /\ (a.json /\ a.event_time.kind # "time") => e.event_time = now
           /\ (a.json /\ a.event_time.kind = "time") =>
                 e.event_time = a.event_time.t

\* a customer_followup answer without event_time
C18_Witness ==
    /\ ModelAnswered
    /\ decision_response.json
    /\ decision_response.event_type = "customer_followup"
    /\ decision_response.event_time = MissingTime
    /\ sched_result.event_instance =
          [event_type |-> "customer_followup", event_time |-> now]

\* C19: when the hard override does not fire, in either mode, the event_type
\* of the EventInstance the scheduler produces is appointment_reminder,
\* pending_activation or customer_followup, whatever the model returns.
C19_EventTypeOfModelPath ==
    (SchedReturned /\ ~sched_result.error /\ ~TriggeredZeroHuman) =>
        sched_result.event_instance.event_type \in
            { "appointment_reminder", "pending_activation",
              "customer_followup" }

\* C20: every triggered-mode call returns the user_last_reply_time of its
\* input and a last_active_send_time equal to the now of the call.
C20_TriggeredBookkeeping ==
    (SchedReturned /\ sched_state.event_happens) =>
        /\ sched_result.user_last_reply_time =
              sched_state.user_last_reply_time
        /\ sched_result.last_active_send_time = Time(FloorMinute(now))

\* ------------------------------------------- claims on the candidate set
\* the list without its repeated actions, each kept at its first position
RECURSIVE FirstSeen(_)
FirstSeen(seq) ==
    IF seq = << >> THEN << >>
    ELSE LET front == FirstSeen(SubSeq(seq, 1, Len(seq) - 1))
             last == seq[Len(seq)]
         IN IF Contains(front, last) THEN front ELSE Append(front, last)

DesignedList ==
    CandidateList(new_stage, turn_count, inp.e, inp.customer_intent,
                  inp.intent, inp.invitation_status)

\* C23: the candidate set returned by _design_node is the produced list
\* without its duplicates, each action kept at the position where it was
\* first produced.
C23_FirstSeenOrder ==
    Designed => candidate_actions = FirstSeen(DesignedList)

DefaultRule ==
    /\ inp.invitation_status # 1
    /\ inp.intent.intent_type \notin
          {"appointment_request", "time_confirmation", "ready_to_book",
           "info_seeking", "price_inquiry", "concern_raised"}

\* C24: in the per-stage default rule the base list of subtle_expertise is
\* value_display alone; needs_analysis is produced by that rule only when
\* familiarity is above 0.4.
C24_SubtleExpertiseBase ==
    (Designed /\ DefaultRule /\ new_stage = "subtle_expertise"
     /\ inp.e.familiarity_level <= 40) =>
        ~Contains(PrimaryActions(new_stage, turn_count, inp.e,
                                 inp.customer_intent, inp.intent,
                                 inp.invitation_status),
                  "needs_analysis")

\* C27: after an evaluation of the stage state machine, comfort below 0.3
\* implies that the resulting stage is initial_contact or ice_breaking.
C27_LowComfortStage ==
    (Designed /\ inp.e.comfort_level < 30) =>
        new_stage \in {"initial_contact", "ice_breaking"}

\* C29: with intent level fake_high the candidate set returned by
\* _design_node contains reverse_probe.
C29_FakeHighReverseProbe ==
    (Designed /\ inp.customer_intent = "fake_high") =>
        "reverse_probe" \in ToSet(candidate_actions)

\* the guard of the low-comfort override of the cascade
LowComfortOverride(stage, e) ==
    /\ e.trust_level >= 30
    /\ e.comfort_level < 20
    /\ stage \in {"solution_visualization", "natural_invitation"}

\* C30: the low-comfort override is reachable: for some input stage, turn
\* count and evaluator outputs with trust >= 0.3 and comfort < 0.2 the stage
\* after the state machine is solution_visualization or natural_invitation
\* and stress_response is prepended to the primary list.
C30_OverrideReachable ==
    \E s \in StageSet, tc \in TurnCounts, e \in Emotions,
       customer_intent \in IntentLevels :
        LET stage == NewStage(ReadStage(s), tc, e, customer_intent)
        IN /\ LowComfortOverride(stage, e)
           /\ \A acts \in {<< "active_close" >>, << "value_pitch" >>} :
                 EmotionAdjusted(acts, stage, e)
                    = << "stress_response" >> \o acts

\* C30, as the code behaves: the regression rules run before the cascade,
\* so with comfort below 0.2 the stage after the state machine is never
\* solution_visualization or natural_invitation and the low-comfort
\* override never prepends stress_response.
C30_OverrideUnreachable ==
    Designed => ~LowComfortOverride(new_stage, inp.e)

\* the stored stage is one the override names, trust is high and comfort is
\* below 0.2: the regression rule has moved the stage to ice_breaking
C30_Witness ==
    /\ Designed
    /\ stage_read \in {"solution_visualization", "natural_invitation"}
    /\ inp.e.trust_level >= 30
    /\ inp.e.comfort_level < 20
    /\ new_stage = "ice_breaking"
    /\ ~Contains(DesignedList, "stress_response")

\* C26: evaluated responses live for one turn: the reply the selector
\* returns is a response evaluated in the same turn or one of the constant
\* fallback strings, and never a response of an earlier turn, also when all
\* units of the turn fail.
C26_SameTurnReply ==
    pc = "replied" =>
        \/ last_message \in {UltimateFallback, Apology}
        \/ /\ last_message.kind \in {"generated", "empty"}
           /\ \E i \in 1..Len(unit) :
                 /\ unit[i].status = "returned"
                 /\ unit[i].response = last_message
           /\ last_message.kind = "generated" => last_message.turn = turn

\* ------------------------------------------ claims on the evaluator calls
Joined == pc = "audio" /\ evaluation_result.status # "idle"

\* C21: the decision starts only after all three concurrent evaluator calls
\* have completed, and a call that failed is joined as an empty result: it
\* stops neither the other calls nor the turn.
C21_GatherJoin ==
    /\ Joined =>
          /\ \A s \in {evaluation_result.status, intent_result.status,
                       judge_invitation_result.status} : s # "running"
          /\ new_stage # None
          /\ candidate_actions # << >>
          /\ evaluation_result.status = "exception" =>
                /\ inp.e = IF existing_state.has_emotional_state
                           THEN existing_state.emotional_state
                           ELSE ZeroEmotion
                /\ inp.customer_intent = existing_state.customer_intent_level
          /\ intent_result.status = "exception" => inp.intent = NoIntent
          /\ judge_invitation_result.status = "exception" =>
                inp.invitation_status # 1
    /\ (pc = "gather" /\ evaluation_result.status = "running") =>
          ENABLED EvaluateStateReturnsEmpty
    /\ (pc = "gather" /\ intent_result.status = "running") =>
          ENABLED AnalyzeCustomerIntentReturnsEmpty
    /\ (pc = "gather" /\ judge_invitation_result.status = "running") =>
          ENABLED JudgeInvitationStateReturns(1)
    /\ (pc = "gather"
        /\ \A s \in {evaluation_result.status, intent_result.status,
                     judge_invitation_result.status} : s # "running") =>
          ENABLED DesignNodeJoined

\* the evaluation failed, the other two calls returned and the decision was
\* taken from the state the thread held
C21_Witness ==
    /\ Joined
    /\ evaluation_result.status = "exception"
    /\ intent_result.status = "returned"
    /\ judge_invitation_result.status = "returned"
    /\ judge_invitation_result.invitation_status = 1
    /\ existing_state.has_emotional_state
    /\ inp.e = existing_state.emotional_state
    /\ "active_close" \in ToSet(candidate_actions)

\* C25: every EmotionalState the stage machine and the candidate cascade
\* consume has its levels within [0, 1], whatever the evaluator returned.
C25_EmotionalStateInRange ==
    Joined => /\ inp.e.trust_level \in 0..100
              /\ inp.e.comfort_level \in 0..100
              /\ inp.e.familiarity_level \in 0..100

\* ----------------------------------------------- claims on the token total
\* the generation and evaluation totals of the units in S, added up
RECURSIVE UnitTotals(_)
UnitTotals(S) ==
    IF S = {} THEN 0
    ELSE LET i == CHOOSE j \in S : TRUE
         IN unit[i].generation_total + unit[i].evaluation_total
            + UnitTotals(S \ {i})

\* C22: the token total of a turn is the sum, over the units that finished,
\* of the generation total plus the evaluation total of each unit, and it is
\* the same for every order in which the units complete.
C22_RoundTokenTotal ==
    pc \in {"select", "replied"} =>
        /\ round_token_used =
              UnitTotals({ i \in 1..Len(unit) : unit[i].status = "returned" })
        /\ \A rs \in Reorderings(results) : RoundTotal(rs) = round_token_used

\* three units, the last one completed first, one unit raised and the other
\* two report different totals
C22_Witness ==
    /\ pc = "replied"
    /\ Len(unit) = 3
    /\ results[1].unit = 3
    /\ unit[1].status = "raised"
    /\ unit[2].status = "returned"
    /\ unit[3].status = "returned"
    /\ unit[2].generation_total + unit[2].evaluation_total = 8
    /\ unit[3].generation_total = 5
    /\ unit[3].evaluation_total = 0
    /\ round_token_used = 13

\* C28: with emotional state and intent level constant over consecutive
\* turns of turn count >= 1, the stage reaches a fixed point after a bounded
\* number of turns and does not change or oscillate afterwards: a run that
\* converges over six stages has done so after five evaluations, so from the
\* seventh evaluation on the stage produced is the stage read.
C28_StageFixedPoint ==
    (Designed /\ turn > Len(Stages)) => new_stage = stage_read

\* the list the cascade and the overrides produce, before the size rules
ProducedList ==
    IntentAdjusted(
        EmotionAdjusted(
            PrimaryActions(new_stage, turn_count, inp.e, inp.customer_intent,
                           inp.intent, inp.invitation_status),
            new_stage, inp.e),
        new_stage, inp.customer_intent)

\* C31: the size rules apply to the deduplicated list: when the cascade and
\* the overrides produce d >= 2 distinct actions, the returned candidate set
\* holds exactly min(3, d) actions, the first min(3, d) distinct actions in
\* produced order.
C31_SizeRulesAfterDedup ==
    (Designed /\ Len(FirstSeen(ProducedList)) >= 2) =>
        /\ ToSet(candidate_actions) = ToSet(Take(FirstSeen(ProducedList), 3))
        /\ Len(candidate_actions) = Len(Take(FirstSeen(ProducedList), 3))

\* C37: for every completion order of the pipeline units, each failure
\* entry added to the trace names the candidate action whose unit raised.
C37_FailureEntryNamesRaisingUnit ==
    pc \in {"select", "replied"} =>
        \A j \in 1..Len(failure_entries) :
            failure_entries[j].named = failure_entries[j].raised_by

\* C33: in the hard-override path the computed event_time is strictly later
\* than the now of the call, for every last_active_send_time (missing,
\* unparsable and future values included), time of day and day of the week.
C33_HardOverrideInFuture ==
    (TriggeredZeroHuman /\ ~sched_result.error) => Delay > 0

\* Saturday 07:30 more than a day after the last send: the slot drawn for
\* today has passed and is replaced by now + 5 minutes
C33_Witness ==
    /\ TriggeredZeroHuman
    /\ ~sched_result.error
    /\ Weekday(now) = 5
    /\ HourOf(now) = 7
    /\ ElapsedSince > Day
    /\ Delay = 5 * Minute


\* C32: after a scheduled event fired, the triggered-mode call produces a next
\* event whose event_time is strictly later than now, so that
\* schedule_event_node posts it to the notification service, also when the
\* decision model raises or answers with unusable output.
C32_ChainSurvivesSilence ==
    (SchedReturned /\ sched_state.event_happens) =>
        /\ ~sched_result.error
        /\ ScheduleEventSends(sched_result.event_instance, now)


\* ------------------------------------------------ claims on token usage
\* C35: token usage accumulates over the session: the total_used a turn
\* reports equals the total_used the turn before reported plus the
\* current_used of this turn, so total_used never decreases.
C35_TotalAccumulates ==
    \A k \in 2..Len(token_reports) :
       /\ token_reports[k].total_used =
             token_reports[k - 1].total_used + token_reports[k].current_used
       /\ token_reports[k].total_used >= token_reports[k - 1].total_used

\* ------------------------------------- claims on the marketing assistant
\* a session whose run is between its input step and its end
InProgress(s) ==
    step_pc[s] \in {"plan", "planning", "execute", "executing", "replan",
                    "final_output", "print_memory"}

\* C34: with two marketing sessions running in one process, the round data
\* a session's node read is the data of that session's own turn (its round
\* id, its user input, tool results of its own steps only), and while a
\* session's turn is in progress the data of that turn is still the current
\* round data: no other session's start-of-turn reset has discarded it.
C34_RoundDataOfOwnTurn ==
    \A s \in Sessions :
       /\ round_data[s] # InitialRoundData =>
             /\ round_data[s].user_input =
                   UserInput(s, graph_state[s].round_id)
             /\ \A i \in
                   1..Len(execution_lists[round_data[s].execution_results]) :
                   execution_lists[round_data[s].execution_results][i]
                      .session = s
       /\ InProgress(s) =>
             current_round_data.user_input =
                UserInput(s, graph_state[s].round_id)

\* C36: within one run the replanner installs a new plan at most three
\* times; the retry limit ends the loop.
C36_AtMostThreePlans ==
    \A s \in Sessions : plans_installed[s] <= max_retries

====
